---- MODULE Spec2Model ----
(***************************************************************************)
(* Model of goboot's tag-driven struct validator, pkg/validator.           *)
(*                                                                         *)
(* Go strings are TLA+ strings over an ASCII alphabet (one byte per rune). *)
(* A reflect.Value of a struct is a sequence of field records; a field     *)
(* carries its declaration (name, exportedness, embedding, kind, the       *)
(* validate / label / json struct tags) together with its value.           *)
(*   kind   str    num                                                     *)
(*   string text   -                                                       *)
(*   int    -      the value                                               *)
(*   uint   -      the value (>= 0)                                        *)
(*   float  -      twice the value (so 5 is 2.5)                           *)
(*   bool   -      0 / 1                                                   *)
(*   slice  -      number of elements       (map likewise)                 *)
(*   ptr    -      0 for nil, 1 otherwise                                  *)
(*   struct -      -     (sub holds the fields)                            *)
(***************************************************************************)
EXTENDS Integers, Sequences, FiniteSets, TLC

VARIABLES
    validators,   \* defaultValidator.validators: rule name -> custom predicate
    messages,     \* defaultValidator.messages: rule name -> message template
    regLog,       \* history of RegisterValidator calls, oldest first
    rec,          \* the value handed to Validate
    result,       \* what Validate returned for rec, or NoResult before the call
    evals,        \* the validateField calls that Validate call made, in order
    returned,     \* the results of the last Validate calls (two at most) made
                  \* on this rec since the registries last changed
    threads,      \* goroutine -> the call it is in and its position there
    race,         \* two accesses to one registry overlapped, one a write
    instances,    \* validators made by New: name -> the maps its fields hold
    heap,         \* the maps New allocated: reference -> contents
    reply         \* the last call of a request helper or of ValidateVar

vars ==
    <<validators, messages, regLog, rec, result, evals, returned, threads, race,
      instances, heap, reply>>

\* what the sequential specifications leave alone
conc == <<threads, race>>

\* what the calls on the default validator leave alone
outside == <<instances, heap, reply>>

(***************************************************************************)
(* strings                                                                 *)
(***************************************************************************)
Char(s, i) == SubSeq(s, i, i)

Digits == {"0", "1", "2", "3", "4", "5", "6", "7", "8", "9"}

LowerLetters ==
    {"a", "b", "c", "d", "e", "f", "g", "h", "i", "j", "k", "l", "m",
     "n", "o", "p", "q", "r", "s", "t", "u", "v", "w", "x", "y", "z"}

UpperLetters ==
    {"A", "B", "C", "D", "E", "F", "G", "H", "I", "J", "K", "L", "M",
     "N", "O", "P", "Q", "R", "S", "T", "U", "V", "W", "X", "Y", "Z"}

Letters == LowerLetters \cup UpperLetters

\* unicode.IsSpace restricted to the ASCII alphabet
IsSpace(c) == c \in {" ", "\t", "\n", "\r", "\f"}

\* strings.Index for a one-character separator: 0 when absent
Index(s, c) ==
    LET hits == {i \in 1..Len(s) : Char(s, i) = c} IN
    IF hits = {} THEN 0 ELSE CHOOSE i \in hits : \A j \in hits : i <= j

\* strings.LastIndex for a one-character separator: 0 when absent
LastIndex(s, c) ==
    LET hits == {i \in 1..Len(s) : Char(s, i) = c} IN
    IF hits = {} THEN 0 ELSE CHOOSE i \in hits : \A j \in hits : i >= j

\* strings.Split(s, sep) for a one-character sep: Split("", sep) is <<"">>
\* the pieces of s from position start on, the scan for sep being at i
RECURSIVE SplitFrom(_, _, _, _)
SplitFrom(s, sep, start, i) ==
    IF i > Len(s) THEN <<SubSeq(s, start, Len(s))>>
    ELSE IF Char(s, i) = sep
    THEN <<SubSeq(s, start, i - 1)>> \o SplitFrom(s, sep, i + 1, i + 1)
    ELSE SplitFrom(s, sep, start, i + 1)

Split(s, sep) == SplitFrom(s, sep, 1, 1)

\* strings.SplitN(s, sep, 2)
SplitN2(s, sep) ==
    LET i == Index(s, sep) IN
    IF i = 0 THEN <<s>>
    ELSE <<SubSeq(s, 1, i - 1), SubSeq(s, i + 1, Len(s))>>

\* s without its leading white space
TrimLeft(s) ==
    SubSeq(s, Cardinality({i \in 1..Len(s) :
                              \A j \in 1..i : IsSpace(Char(s, j))}) + 1, Len(s))

\* s without its trailing white space
TrimRight(s) ==
    SubSeq(s, 1, Len(s) - Cardinality({i \in 1..Len(s) :
                                          \A j \in i..Len(s) : IsSpace(Char(s, j))}))

TrimSpace(s) == TrimRight(TrimLeft(s))

AllIn(s, class) == \A i \in 1..Len(s) : Char(s, i) \in class

(***************************************************************************)
(* strconv                                                                 *)
(***************************************************************************)
DigitVal(c) == CHOOSE d \in 0..9 : Char("0123456789", d + 1) = c

RECURSIVE DigitsValue(_)
DigitsValue(s) ==
    IF s = "" THEN 0
    ELSE 10 * DigitsValue(SubSeq(s, 1, Len(s) - 1)) + DigitVal(Char(s, Len(s)))

\* the value of an optionally signed digit string, 0 when it is malformed
SignedValue(ok, negative, body) ==
    IF ~ok THEN 0
    ELSE IF negative THEN 0 - DigitsValue(body) ELSE DigitsValue(body)

HasSign(s) == s # "" /\ Char(s, 1) \in {"+", "-"}
Unsigned(s) == IF HasSign(s) THEN SubSeq(s, 2, Len(s)) ELSE s

\* strconv.ParseInt(s, 10, 64): optional sign, then one or more digits.
\* On a syntax error the value is 0.  (The parameters enumerated below have
\* few digits, so the range error of a value past 64 bits does not arise.)
ParseIntBody(s, body) ==
    [ok  |-> body # "" /\ AllIn(body, Digits),
     val |-> SignedValue(body # "" /\ AllIn(body, Digits),
                         Char(s, 1) = "-", body)]

ParseInt(s) == ParseIntBody(s, Unsigned(s))

\* strconv.Atoi(s) is ParseInt(s, 10, 0)
Atoi(s) == ParseInt(s)

\* strconv.ParseUint(s, 10, 64): digits only, no sign
ParseUint(s) ==
    LET ok == s # "" /\ AllIn(s, Digits)
    IN  [ok |-> ok, val |-> IF ok THEN DigitsValue(s) ELSE 0]

RECURSIVE Pow10(_)
Pow10(k) == IF k = 0 THEN 1 ELSE 10 * Pow10(k - 1)

\* strconv.ParseFloat(s, 64) on decimal literals: optional sign, digits with an
\* optional fraction.  The value is num / den; 0 on a syntax error.  (Exponent,
\* hexadecimal, "inf" and "nan" spellings are outside the enumerated alphabet.)
ParseFloatParts(s, ip, fp, ok) ==
    [ok  |-> ok,
     num |-> SignedValue(ok, Char(s, 1) = "-", ip \o fp),
     den |-> IF ok THEN Pow10(Len(fp)) ELSE 1]

ParseFloatSplit(s, ip, fp) ==
    ParseFloatParts(s, ip, fp,
                    AllIn(ip, Digits) /\ AllIn(fp, Digits) /\ (ip # "" \/ fp # ""))

ParseFloatBody(s, body, dot) ==
    IF dot = 0 THEN ParseFloatSplit(s, body, "")
    ELSE ParseFloatSplit(s, SubSeq(body, 1, dot - 1),
                         SubSeq(body, dot + 1, Len(body)))

ParseFloat(s) == ParseFloatBody(s, Unsigned(s), Index(Unsigned(s), "."))

\* uint64(n) for an int n: a negative n wraps to 2^64 + n.  The result is kept
\* as wraps * 2^64 + low, exact for every |low| < 2^63.
Uint64(n) == [wraps |-> IF n < 0 THEN 1 ELSE 0, low |-> n]

\* a >= b and a <= b on such uint64 values
U64Geq(a, b) == a.wraps > b.wraps \/ (a.wraps = b.wraps /\ a.low >= b.low)
U64Leq(a, b) == U64Geq(b, a)

(***************************************************************************)
(* reflect: kinds                                                          *)
(***************************************************************************)
LenKinds == {"slice", "map", "array"}
NilKinds == {"ptr", "interface"}

\* reflect.Value.IsZero
RECURSIVE IsZero(_)
IsZero(f) ==
    CASE f.kind = "string" -> f.str = ""
      [] f.kind = "struct" -> \A i \in 1..Len(f.sub) : IsZero(f.sub[i])
      [] OTHER -> f.num = 0

(***************************************************************************)
(* built-in rules                                                          *)
(***************************************************************************)
\* validateRequired testing every kind for its zero value
validateRequiredByIsZero(field) == ~IsZero(field)

validateRequired(field) ==
    CASE field.kind = "string" -> TrimSpace(field.str) # ""
      [] field.kind \in LenKinds -> field.num > 0
      [] field.kind \in NilKinds -> field.num # 0
      [] field.kind = "int" -> field.num # 0
      [] field.kind = "uint" -> field.num # 0
      [] field.kind = "float" -> field.num # 0
      [] field.kind = "bool" -> TRUE
      [] OTHER -> ~IsZero(field)

\* A string is the sequence of its runes. Every character is one byte in
\* UTF-8 but WideRune, which stands for a three-byte rune such as U+4E2D.
WideRune == "~"
Utf8Len(c) == IF c = WideRune THEN 3 ELSE 1

\* len(s): the number of bytes
RECURSIVE ByteLen(_)
ByteLen(s) == IF s = "" THEN 0 ELSE Utf8Len(Head(s)) + ByteLen(Tail(s))

\* the number of bytes where the number of runes is meant
RuneCountInBytes(s) == ByteLen(s)

\* utf8.RuneCountInString
RuneCountInString(s) == Len(s)

\* validateMin after min, err := strconv.Atoi(param)
validateMinOf(field, min) ==
    IF ~min.ok THEN FALSE
    ELSE CASE field.kind = "string" -> RuneCountInString(field.str) >= min.val
           [] field.kind \in LenKinds -> field.num >= min.val
           [] field.kind = "int" -> field.num >= min.val
           [] field.kind = "uint" -> U64Geq(Uint64(field.num), Uint64(min.val))
           [] field.kind = "float" -> field.num >= 2 * min.val
           [] OTHER -> FALSE

validateMin(field, param) == validateMinOf(field, Atoi(param))

\* validateMax taking an unparsable bound as no bound
validateMaxOfLenient(field, max) ==
    IF ~max.ok THEN TRUE
    ELSE CASE field.kind = "string" -> RuneCountInString(field.str) <= max.val
           [] field.kind \in LenKinds -> field.num <= max.val
           [] field.kind = "int" -> field.num <= max.val
           [] field.kind = "uint" -> U64Leq(Uint64(field.num), Uint64(max.val))
           [] field.kind = "float" -> field.num <= 2 * max.val
           [] OTHER -> FALSE

\* validateMax after max, err := strconv.Atoi(param)
validateMaxOf(field, max) ==
    IF ~max.ok THEN FALSE
    ELSE CASE field.kind = "string" -> RuneCountInString(field.str) <= max.val
           [] field.kind \in LenKinds -> field.num <= max.val
           [] field.kind = "int" -> field.num <= max.val
           [] field.kind = "uint" -> U64Leq(Uint64(field.num), Uint64(max.val))
           [] field.kind = "float" -> field.num <= 2 * max.val
           [] OTHER -> FALSE

validateMax(field, param) == validateMaxOf(field, Atoi(param))

\* validateLen after length, err := strconv.Atoi(param)
validateLenOf(field, length) ==
    IF ~length.ok THEN FALSE
    ELSE CASE field.kind = "string" -> RuneCountInString(field.str) = length.val
           [] field.kind \in LenKinds -> field.num = length.val
           [] OTHER -> FALSE

validateLen(field, param) == validateLenOf(field, Atoi(param))

\* validateRange after parts := strings.Split(param, "-")
validateRangeOf(field, parts) ==
    IF Len(parts) # 2 THEN FALSE
    ELSE validateMin(field, parts[1]) /\ validateMax(field, parts[2])

validateRange(field, param) == validateRangeOf(field, Split(param, "-"))

(***************************************************************************)
(* the precompiled patterns, each as the matcher of its regular expression *)
(***************************************************************************)
AlphaNum == Letters \cup Digits

\* \s of the regexp package
ReSpace == {" ", "\t", "\n", "\r", "\f"}

\* ^[a-zA-Z0-9._%+-]+@[a-zA-Z0-9.-]+\.[a-zA-Z]{2,}$
emailRegex(s) ==
    LET at    == Index(s, "@")
        local == SubSeq(s, 1, at - 1)
        rest  == SubSeq(s, at + 1, Len(s))
        dot   == LastIndex(rest, ".")
        host  == SubSeq(rest, 1, dot - 1)
        tld   == SubSeq(rest, dot + 1, Len(rest))
    IN  /\ at > 0
        /\ local # "" /\ AllIn(local, AlphaNum \cup {".", "_", "%", "+", "-"})
        /\ dot > 0
        /\ host # "" /\ AllIn(host, AlphaNum \cup {".", "-"})
        /\ Len(tld) >= 2 /\ AllIn(tld, Letters)

\* ^1[3-9]\d{9}$
phoneRegex(s) ==
    /\ Len(s) = 11
    /\ Char(s, 1) = "1"
    /\ Char(s, 2) \in {"3", "4", "5", "6", "7", "8", "9"}
    /\ AllIn(SubSeq(s, 3, 11), Digits)

\* ^https?://[^\s/$.?#].[^\s]*$
urlRegex(s) ==
    LET plain == Len(s) >= 7 /\ SubSeq(s, 1, 7) = "http://"
        tls   == Len(s) >= 8 /\ SubSeq(s, 1, 8) = "https://"
        rest  == IF tls THEN SubSeq(s, 9, Len(s)) ELSE SubSeq(s, 8, Len(s))
    IN  /\ plain \/ tls
        /\ Len(rest) >= 2
        /\ Char(rest, 1) \notin ReSpace \cup {"/", "$", ".", "?", "#"}
        /\ Char(rest, 2) # "\n"
        /\ \A i \in 3..Len(rest) : Char(rest, i) \notin ReSpace

\* ^(\d{1,3}\.){3}\d{1,3}$
ipRegex(s) ==
    LET parts == Split(s, ".") IN
    /\ Len(parts) = 4
    /\ \A i \in 1..4 : Len(parts[i]) \in 1..3 /\ AllIn(parts[i], Digits)

\* ^[a-zA-Z]+$   ^[a-zA-Z0-9]+$   ^[0-9]+$   ^[a-zA-Z0-9_]+$
alphaRegex(s) == s # "" /\ AllIn(s, Letters)
alphaNumRegex(s) == s # "" /\ AllIn(s, AlphaNum)
numericRegex(s) == s # "" /\ AllIn(s, Digits)
usernameRegex(s) == s # "" /\ AllIn(s, AlphaNum \cup {"_"})

\* ^-?[0-9]+\.?[0-9]*$
numberRegex(s) ==
    LET body == IF s # "" /\ Char(s, 1) = "-" THEN SubSeq(s, 2, Len(s)) ELSE s
        dot  == Index(body, ".")
        ip   == IF dot = 0 THEN body ELSE SubSeq(body, 1, dot - 1)
        fp   == IF dot = 0 THEN "" ELSE SubSeq(body, dot + 1, Len(body))
    IN  ip # "" /\ AllIn(ip, Digits) /\ AllIn(fp, Digits)

\* ^[1-9]\d{5}(18|19|20)\d{2}(0[1-9]|1[0-2])(0[1-9]|[12]\d|3[01])\d{3}[\dXx]$
idcardRegex(s) ==
    /\ Len(s) = 18
    /\ Char(s, 1) \in Digits \ {"0"}
    /\ AllIn(SubSeq(s, 2, 6), Digits)
    /\ SubSeq(s, 7, 8) \in {"18", "19", "20"}
    /\ AllIn(SubSeq(s, 9, 10), Digits)
    /\ \/ Char(s, 11) = "0" /\ Char(s, 12) \in Digits \ {"0"}
       \/ Char(s, 11) = "1" /\ Char(s, 12) \in {"0", "1", "2"}
    /\ \/ Char(s, 13) = "0" /\ Char(s, 14) \in Digits \ {"0"}
       \/ Char(s, 13) \in {"1", "2"} /\ Char(s, 14) \in Digits
       \/ Char(s, 13) = "3" /\ Char(s, 14) \in {"0", "1"}
    /\ AllIn(SubSeq(s, 15, 17), Digits)
    /\ Char(s, 18) \in Digits \cup {"X", "x"}

\* validateEmail matching the pattern against the empty string too
validateEmailNoBlank(field) ==
    IF field.kind # "string" THEN FALSE
    ELSE emailRegex(field.str)

validateEmail(field) ==
    IF field.kind # "string" THEN FALSE
    ELSE IF field.str = "" THEN TRUE
    ELSE emailRegex(field.str)

validatePhone(field) ==
    IF field.kind # "string" THEN FALSE
    ELSE IF field.str = "" THEN TRUE
    ELSE phoneRegex(field.str)

validateURL(field) ==
    IF field.kind # "string" THEN FALSE
    ELSE IF field.str = "" THEN TRUE
    ELSE urlRegex(field.str)

validateIP(field) ==
    IF field.kind # "string" THEN FALSE
    ELSE IF field.str = "" THEN TRUE
    ELSE IF ~ipRegex(field.str) THEN FALSE
    ELSE LET parts == Split(field.str, ".") IN
         \A i \in 1..Len(parts) : Atoi(parts[i]).val <= 255

validateAlpha(field) ==
    IF field.kind # "string" THEN FALSE
    ELSE IF field.str = "" THEN TRUE
    ELSE alphaRegex(field.str)

validateAlphaNum(field) ==
    IF field.kind # "string" THEN FALSE
    ELSE IF field.str = "" THEN TRUE
    ELSE alphaNumRegex(field.str)

validateNumeric(field) ==
    IF field.kind # "string" THEN FALSE
    ELSE IF field.str = "" THEN TRUE
    ELSE numericRegex(field.str)

validateNumber(field) ==
    IF field.kind # "string" THEN FALSE
    ELSE IF field.str = "" THEN TRUE
    ELSE numberRegex(field.str)

\* s == strings.ToLower(s): over ASCII, no upper-case letter occurs
validateLowercase(field) ==
    IF field.kind # "string" THEN FALSE
    ELSE IF field.str = "" THEN TRUE
    ELSE \A i \in 1..Len(field.str) : Char(field.str, i) \notin UpperLetters

validateUppercase(field) ==
    IF field.kind # "string" THEN FALSE
    ELSE IF field.str = "" THEN TRUE
    ELSE \A i \in 1..Len(field.str) : Char(field.str, i) \notin LowerLetters

HasPrefix(s, prefix) == Len(s) >= Len(prefix) /\ SubSeq(s, 1, Len(prefix)) = prefix
HasSuffix(s, suffix) ==
    Len(s) >= Len(suffix) /\ SubSeq(s, Len(s) - Len(suffix) + 1, Len(s)) = suffix
Contains(s, substr) ==
    \/ substr = ""
    \/ \E i \in 1..(Len(s) - Len(substr) + 1) :
           SubSeq(s, i, i + Len(substr) - 1) = substr

validateContains(field, param) ==
    IF field.kind # "string" THEN FALSE
    ELSE Contains(field.str, param)

validateStartsWith(field, param) ==
    IF field.kind # "string" THEN FALSE
    ELSE IF field.str = "" THEN TRUE
    ELSE HasPrefix(field.str, param)

validateEndsWith(field, param) ==
    IF field.kind # "string" THEN FALSE
    ELSE IF field.str = "" THEN TRUE
    ELSE HasSuffix(field.str, param)

\* regexp.Compile(param) and MatchString for the patterns enumerated below:
\* the README's "^[a-z]+$", which compiles, and "[", which does not;
\* "^a{1,3}$", and "^a{1", in which "{" opens no repetition and is a literal.
regexpCompiles(pattern) ==
    CASE pattern = "^[a-z]+$" -> TRUE
      [] pattern = "[" -> FALSE
      [] pattern = "^a{1,3}$" -> TRUE
      [] pattern = "^a{1" -> TRUE

regexpMatch(pattern, s) ==
    CASE pattern = "^[a-z]+$" -> s # "" /\ AllIn(s, LowerLetters)
      [] pattern = "^a{1,3}$" -> s \in {"a", "aa", "aaa"}
      [] pattern = "^a{1" -> HasPrefix(s, "a{1")

validateRegex(field, param) ==
    IF field.kind # "string" THEN FALSE
    ELSE IF field.str = "" THEN TRUE
    ELSE IF ~regexpCompiles(param) THEN FALSE
    ELSE regexpMatch(param, field.str)

\* The comparison rules drop the parse error: p is 0 when param is no number.
\* A float field holds num / 2 and the parameter is p.num / p.den.
validateEq(field, param) ==
    CASE field.kind = "string" -> field.str = param
      [] field.kind = "int" -> field.num = ParseInt(param).val
      [] field.kind = "uint" -> field.num = ParseUint(param).val
      [] field.kind = "float" ->
            LET p == ParseFloat(param) IN field.num * p.den = 2 * p.num
      [] OTHER -> FALSE

validateNe(field, param) == ~validateEq(field, param)

validateGt(field, param) ==
    CASE field.kind = "int" -> field.num > ParseInt(param).val
      [] field.kind = "uint" -> field.num > ParseUint(param).val
      [] field.kind = "float" ->
            LET p == ParseFloat(param) IN field.num * p.den > 2 * p.num
      [] OTHER -> FALSE

validateGte(field, param) ==
    CASE field.kind = "int" -> field.num >= ParseInt(param).val
      [] field.kind = "uint" -> field.num >= ParseUint(param).val
      [] field.kind = "float" ->
            LET p == ParseFloat(param) IN field.num * p.den >= 2 * p.num
      [] OTHER -> FALSE

validateLt(field, param) ==
    CASE field.kind = "int" -> field.num < ParseInt(param).val
      [] field.kind = "uint" -> field.num < ParseUint(param).val
      [] field.kind = "float" ->
            LET p == ParseFloat(param) IN field.num * p.den < 2 * p.num
      [] OTHER -> FALSE

validateLte(field, param) ==
    CASE field.kind = "int" -> field.num <= ParseInt(param).val
      [] field.kind = "uint" -> field.num <= ParseUint(param).val
      [] field.kind = "float" ->
            LET p == ParseFloat(param) IN field.num * p.den <= 2 * p.num
      [] OTHER -> FALSE

\* strconv.FormatUint(n, 10) and strconv.FormatInt(n, 10)
RECURSIVE FormatUint(_)
FormatUint(n) ==
    IF n < 10 THEN Char("0123456789", n + 1)
    ELSE FormatUint(n \div 10) \o Char("0123456789", (n % 10) + 1)

FormatInt(n) == IF n < 0 THEN "-" \o FormatUint(0 - n) ELSE FormatUint(n)

\* validateOneOf holding the empty string against the list as well
validateOneOfNoBlank(field, param) ==
    LET allowed == Split(param, " ") IN
    IF field.kind # "string"
    THEN CASE field.kind = "int" ->
                \E i \in 1..Len(allowed) : FormatInt(field.num) = allowed[i]
           [] field.kind = "uint" ->
                \E i \in 1..Len(allowed) : FormatUint(field.num) = allowed[i]
           [] OTHER -> FALSE
    ELSE \E i \in 1..Len(allowed) : field.str = allowed[i]

validateOneOf(field, param) ==
    LET allowed == Split(param, " ") IN
    IF field.kind # "string"
    THEN CASE field.kind = "int" ->
                \E i \in 1..Len(allowed) : FormatInt(field.num) = allowed[i]
           [] field.kind = "uint" ->
                \E i \in 1..Len(allowed) : FormatUint(field.num) = allowed[i]
           [] OTHER -> FALSE
    ELSE IF field.str = "" THEN TRUE
    ELSE \E i \in 1..Len(allowed) : field.str = allowed[i]

validateUsername(field) ==
    IF field.kind # "string" THEN FALSE
    ELSE IF field.str = "" THEN TRUE
    ELSE usernameRegex(field.str)

\* len(s) is the byte length
validatePassword(field, param) ==
    LET s      == field.str
        minLen == IF param # "" THEN Atoi(param).val ELSE 6
    IN  IF field.kind # "string" THEN FALSE
        ELSE IF s = "" THEN TRUE
        ELSE IF ByteLen(s) < minLen THEN FALSE
        ELSE /\ \E i \in 1..Len(s) : Char(s, i) \in Letters
             /\ \E i \in 1..Len(s) : Char(s, i) \in Digits

validateIDCard(field) ==
    IF field.kind # "string" THEN FALSE
    ELSE IF field.str = "" THEN TRUE
    ELSE idcardRegex(field.str)

(***************************************************************************)
(* custom predicates: the ValidatorFunc values callers register            *)
(***************************************************************************)
\* "even" is the README's example; "accept" and "reject" are the two constant
\* predicates.
ValidatorFuncs == {"even", "accept", "reject"}

ValidatorFunc(fn, field, param) ==
    CASE fn = "even" -> IF field.kind = "int" THEN field.num % 2 = 0 ELSE FALSE
      [] fn = "accept" -> TRUE
      [] fn = "reject" -> FALSE

(***************************************************************************)
(* dispatch                                                                *)
(***************************************************************************)
\* the rule names of the switch in validateField
BuiltinNames ==
    {"required", "min", "max", "len", "range", "email", "phone", "url", "ip",
     "alpha", "alphanum", "numeric", "number", "lowercase", "uppercase",
     "contains", "startswith", "endswith", "regex", "eq", "ne", "gt", "gte",
     "lt", "lte", "oneof", "username", "password", "idcard"}

BuiltinRule(field, tag, param) ==
    CASE tag = "required" -> validateRequired(field)
      [] tag = "min" -> validateMin(field, param)
      [] tag = "max" -> validateMax(field, param)
      [] tag = "len" -> validateLen(field, param)
      [] tag = "range" -> validateRange(field, param)
      [] tag = "email" -> validateEmail(field)
      [] tag = "phone" -> validatePhone(field)
      [] tag = "url" -> validateURL(field)
      [] tag = "ip" -> validateIP(field)
      [] tag = "alpha" -> validateAlpha(field)
      [] tag = "alphanum" -> validateAlphaNum(field)
      [] tag = "numeric" -> validateNumeric(field)
      [] tag = "number" -> validateNumber(field)
      [] tag = "lowercase" -> validateLowercase(field)
      [] tag = "uppercase" -> validateUppercase(field)
      [] tag = "contains" -> validateContains(field, param)
      [] tag = "startswith" -> validateStartsWith(field, param)
      [] tag = "endswith" -> validateEndsWith(field, param)
      [] tag = "regex" -> validateRegex(field, param)
      [] tag = "eq" -> validateEq(field, param)
      [] tag = "ne" -> validateNe(field, param)
      [] tag = "gt" -> validateGt(field, param)
      [] tag = "gte" -> validateGte(field, param)
      [] tag = "lt" -> validateLt(field, param)
      [] tag = "lte" -> validateLte(field, param)
      [] tag = "oneof" -> validateOneOf(field, param)
      [] tag = "username" -> validateUsername(field)
      [] tag = "password" -> validatePassword(field, param)
      [] tag = "idcard" -> validateIDCard(field)
      [] OTHER -> TRUE

\* validateField failing a rule name it does not know
validateFieldStrict(v, field, tag, param) ==
    IF tag \in DOMAIN v.validators
    THEN ValidatorFunc(v.validators[tag], field, param)
    ELSE tag \in BuiltinNames /\ BuiltinRule(field, tag, param)

\* v is the Validator: [validators, messages]
validateField(v, field, tag, param) ==
    IF tag \in DOMAIN v.validators
    THEN ValidatorFunc(v.validators[tag], field, param)
    ELSE BuiltinRule(field, tag, param)

\* parseRule cutting the rule at its last "="
parseRuleAtLastEq(rule) ==
    LET i == LastIndex(rule, "=") IN
    IF i = 0 THEN [tag |-> rule, param |-> ""]
    ELSE [tag |-> SubSeq(rule, 1, i - 1),
          param |-> SubSeq(rule, i + 1, Len(rule))]

parseRule(rule) ==
    LET parts == SplitN2(rule, "=") IN
    [tag |-> parts[1], param |-> IF Len(parts) > 1 THEN parts[2] ELSE ""]

(***************************************************************************)
(* error messages                                                          *)
(*                                                                         *)
(* The catalog's literal text is Chinese; each template is written here as *)
(* an ASCII gloss with the same placeholders in the same order.            *)
(***************************************************************************)
\* strings.ReplaceAll for a non-empty old
\* s from position i on with every old replaced by new
RECURSIVE ReplaceFrom(_, _, _, _)
ReplaceFrom(s, old, new, i) ==
    IF i + Len(old) - 1 > Len(s) THEN SubSeq(s, i, Len(s))
    ELSE IF SubSeq(s, i, i + Len(old) - 1) = old
    THEN new \o ReplaceFrom(s, old, new, i + Len(old))
    ELSE SubSeq(s, i, i) \o ReplaceFrom(s, old, new, i + 1)

\* strings.ReplaceAll; the string is evaluated once and then scanned
ReplaceAll(s, old, new) ==
    CHOOSE r \in {ReplaceFrom(str, old, new, 1) : str \in {s}} : TRUE

defaultMessages ==
    ("required" :> "{field} must not be empty")
    @@ ("min" :> "{field} must not be shorter than {param}")
    @@ ("max" :> "{field} must not be longer than {param}")
    @@ ("len" :> "{field} must have length {param}")
    @@ ("range" :> "{field} must have length {min}-{max}")
    @@ ("email" :> "{field} must be a valid email address")
    @@ ("phone" :> "{field} must be a valid phone number")
    @@ ("url" :> "{field} must be a valid URL")
    @@ ("ip" :> "{field} must be a valid IP address")
    @@ ("alpha" :> "{field} may hold letters only")
    @@ ("alphanum" :> "{field} may hold letters and digits only")
    @@ ("numeric" :> "{field} may hold digits only")
    @@ ("number" :> "{field} must be a number")
    @@ ("lowercase" :> "{field} may hold lower-case letters only")
    @@ ("uppercase" :> "{field} may hold upper-case letters only")
    @@ ("contains" :> "{field} must contain {param}")
    @@ ("startswith" :> "{field} must start with {param}")
    @@ ("endswith" :> "{field} must end with {param}")
    @@ ("regex" :> "{field} is malformed")
    @@ ("eq" :> "{field} must equal {param}")
    @@ ("ne" :> "{field} must not equal {param}")
    @@ ("gt" :> "{field} must be greater than {param}")
    @@ ("gte" :> "{field} must be greater than or equal to {param}")
    @@ ("lt" :> "{field} must be less than {param}")
    @@ ("lte" :> "{field} must be less than or equal to {param}")
    @@ ("oneof" :> "{field} must be one of: {param}")
    @@ ("username" :> "{field} may hold letters, digits and underscores only")
    @@ ("password" :> "{field} must hold letters and digits, at least {param} long")
    @@ ("idcard" :> "{field} must be a valid identity card number")

\* formatMessage once the template is looked up and {field}, {param} replaced
formatRange(msg, tag, param, parts) ==
    IF tag = "range" /\ Contains(param, "-") /\ Len(parts) = 2
    THEN ReplaceAll(ReplaceAll(msg, "{min}", parts[1]), "{max}", parts[2])
    ELSE msg

\* formatMessage reading the built-in catalog instead of the validator's
formatMessageFromDefaults(v, tag, label, param) ==
    formatRange(ReplaceAll(ReplaceAll(IF tag \in DOMAIN defaultMessages
                                      THEN defaultMessages[tag]
                                      ELSE "validation failed",
                                      "{field}", label),
                           "{param}", param),
                tag, param, Split(param, "-"))

formatMessage(v, tag, label, param) ==
    formatRange(ReplaceAll(ReplaceAll(IF tag \in DOMAIN v.messages
                                      THEN v.messages[tag]
                                      ELSE "validation failed",
                                      "{field}", label),
                           "{param}", param),
                tag, param, Split(param, "-"))

\* the label validateStruct passes to formatMessage: the label tag, else the
\* json tag's name, else the field's name
\* fieldLabel taking the whole json tag, options included
fieldLabelWholeJson(field) ==
    IF field.label # "" THEN field.label
    ELSE IF field.json # "" /\ field.json # "-" THEN field.json
    ELSE field.name

fieldLabel(field) ==
    IF field.label # "" THEN field.label
    ELSE IF field.json # "" /\ field.json # "-"
    THEN Split(field.json, ",")[1]
    ELSE field.name

(***************************************************************************)
(* the struct walker                                                       *)
(*                                                                         *)
(* The walk threads acc = [errors, evals]: errors is *errors of the code,  *)
(* evals records each validateField call as [path, tag, param, ok], path   *)
(* being the field's position (indices from the top-level struct down).    *)
(***************************************************************************)
ValidationError(v, field, pr) ==
    [Field   |-> field.name,
     Tag     |-> pr.tag,
     Value   |-> [kind |-> field.kind, str |-> field.str, num |-> field.num],
     Message |-> formatMessage(v, pr.tag, fieldLabel(field), pr.param)]

\* the loop over the rules of one field, from rule k on; ruleStep is one
\* iteration on the trimmed, non-empty rule pr whose validateField gave ok
RECURSIVE ruleLoop(_, _, _, _, _, _)
\* ruleStep without the break after the first failing rule
ruleStepNoBreak(v, field, path, rules, k, acc, pr, ok) ==
    ruleLoop(v, field, path, rules, k + 1,
             [errors |-> IF ok THEN acc.errors
                         ELSE Append(acc.errors, ValidationError(v, field, pr)),
              evals  |-> Append(acc.evals,
                                [path |-> path, tag |-> pr.tag,
                                 param |-> pr.param, ok |-> ok])])

ruleStep(v, field, path, rules, k, acc, pr, ok) ==
    IF ~ok
    THEN [errors |-> Append(acc.errors, ValidationError(v, field, pr)),
          evals  |-> Append(acc.evals,
                            [path |-> path, tag |-> pr.tag,
                             param |-> pr.param, ok |-> FALSE])]
    ELSE ruleLoop(v, field, path, rules, k + 1,
                  [errors |-> acc.errors,
                   evals  |-> Append(acc.evals,
                                     [path |-> path, tag |-> pr.tag,
                                      param |-> pr.param, ok |-> TRUE])])

ruleParsed(v, field, path, rules, k, acc, pr) ==
    ruleStep(v, field, path, rules, k, acc, pr,
             validateField(v, field, pr.tag, pr.param))

ruleLoop(v, field, path, rules, k, acc) ==
    IF k > Len(rules) THEN acc
    ELSE IF TrimSpace(rules[k]) = ""
    THEN ruleLoop(v, field, path, rules, k + 1, acc)
    ELSE ruleParsed(v, field, path, rules, k, acc,
                    parseRule(TrimSpace(rules[k])))

\* the loop over the fields of one struct, from field i on; validateStruct is
\* the loop from the first field
RECURSIVE fieldLoop(_, _, _, _, _)
\* fieldLoop returning at the first field that reported an error
fieldLoopStopAtError(v, val, path, i, acc) ==
    IF i > Len(val) \/ Len(acc.errors) > 0 THEN acc
    ELSE IF ~val[i].exported
    THEN fieldLoop(v, val, path, i + 1, acc)
    ELSE IF val[i].kind = "struct" /\ val[i].anonymous
    THEN fieldLoop(v, val, path, i + 1,
                   fieldLoop(v, val[i].sub, Append(path, i), 1, acc))
    ELSE IF val[i].validate = "" \/ val[i].validate = "-"
    THEN fieldLoop(v, val, path, i + 1, acc)
    ELSE fieldLoop(v, val, path, i + 1,
                   ruleLoop(v, val[i], Append(path, i),
                            Split(val[i].validate, ","), 1, acc))

\* fieldLoop walking an embedded struct after the fields that follow it
fieldLoopEmbeddedLast(v, val, path, i, acc) ==
    IF i > Len(val) THEN acc
    ELSE IF ~val[i].exported
    THEN fieldLoop(v, val, path, i + 1, acc)
    ELSE IF val[i].kind = "struct" /\ val[i].anonymous
    THEN fieldLoop(v, val[i].sub, Append(path, i), 1,
                   fieldLoop(v, val, path, i + 1, acc))
    ELSE IF val[i].validate = "" \/ val[i].validate = "-"
    THEN fieldLoop(v, val, path, i + 1, acc)
    ELSE fieldLoop(v, val, path, i + 1,
                   ruleLoop(v, val[i], Append(path, i),
                            Split(val[i].validate, ","), 1, acc))

\* fieldLoop walking into every struct field, embedded or named
fieldLoopAnyStruct(v, val, path, i, acc) ==
    IF i > Len(val) THEN acc
    ELSE IF ~val[i].exported
    THEN fieldLoop(v, val, path, i + 1, acc)
    ELSE IF val[i].kind = "struct"
    THEN fieldLoop(v, val, path, i + 1,
                   fieldLoop(v, val[i].sub, Append(path, i), 1, acc))
    ELSE IF val[i].validate = "" \/ val[i].validate = "-"
    THEN fieldLoop(v, val, path, i + 1, acc)
    ELSE fieldLoop(v, val, path, i + 1,
                   ruleLoop(v, val[i], Append(path, i),
                            Split(val[i].validate, ","), 1, acc))

\* fieldLoop evaluating the annotation of an embedded struct after its fields
fieldLoopEmbeddedRules(v, val, path, i, acc) ==
    IF i > Len(val) THEN acc
    ELSE IF ~val[i].exported
    THEN fieldLoop(v, val, path, i + 1, acc)
    ELSE IF val[i].kind = "struct" /\ val[i].anonymous
            /\ (val[i].validate = "" \/ val[i].validate = "-")
    THEN fieldLoop(v, val, path, i + 1,
                   fieldLoop(v, val[i].sub, Append(path, i), 1, acc))
    ELSE IF val[i].kind = "struct" /\ val[i].anonymous
    THEN fieldLoop(v, val, path, i + 1,
                   ruleLoop(v, val[i], Append(path, i),
                            Split(val[i].validate, ","), 1,
                            fieldLoop(v, val[i].sub, Append(path, i), 1, acc)))
    ELSE IF val[i].validate = "" \/ val[i].validate = "-"
    THEN fieldLoop(v, val, path, i + 1, acc)
    ELSE fieldLoop(v, val, path, i + 1,
                   ruleLoop(v, val[i], Append(path, i),
                            Split(val[i].validate, ","), 1, acc))

\* fieldLoop handing the whole annotation to the rule loop as one rule
fieldLoopWholeAnnotation(v, val, path, i, acc) ==
    IF i > Len(val) THEN acc
    ELSE IF ~val[i].exported
    THEN fieldLoop(v, val, path, i + 1, acc)
    ELSE IF val[i].kind = "struct" /\ val[i].anonymous
    THEN fieldLoop(v, val, path, i + 1,
                   fieldLoop(v, val[i].sub, Append(path, i), 1, acc))
    ELSE IF val[i].validate = "" \/ val[i].validate = "-"
    THEN fieldLoop(v, val, path, i + 1, acc)
    ELSE fieldLoop(v, val, path, i + 1,
                   ruleLoop(v, val[i], Append(path, i),
                            <<val[i].validate>>, 1, acc))

fieldLoop(v, val, path, i, acc) ==
    IF i > Len(val) THEN acc
    ELSE LET field == val[i] IN
         IF ~field.exported
         THEN fieldLoop(v, val, path, i + 1, acc)
         ELSE IF field.kind = "struct" /\ field.anonymous
         THEN fieldLoop(v, val, path, i + 1,
                        fieldLoop(v, field.sub, Append(path, i), 1, acc))
         ELSE IF field.validate = "" \/ field.validate = "-"
         THEN fieldLoop(v, val, path, i + 1, acc)
         ELSE fieldLoop(v, val, path, i + 1,
                        ruleLoop(v, field, Append(path, i),
                                 Split(field.validate, ","), 1, acc))

validateStruct(v, val, acc) == fieldLoop(v, val, <<>>, 1, acc)

\* Validator.Validate: s is [kind, elemKind, sub]; for a pointer elemKind is
\* the kind of what it points to ("invalid" for a nil pointer) and sub the
\* fields of the struct pointed to.
NoResult == [kind |-> "none", errs |-> <<>>]

\* Validate returning the error set without looking at its length
ValidateNoLenCheck(v, s) ==
    IF (IF s.kind = "ptr" THEN s.elemKind ELSE s.kind) # "struct"
    THEN [ret   |-> [kind |-> "expected struct", errs |-> <<>>],
          evals |-> <<>>]
    ELSE LET acc == validateStruct(v, s.sub, [errors |-> <<>>, evals |-> <<>>])
         IN  [ret   |-> [kind |-> "errors", errs |-> acc.errors],
              evals |-> acc.evals]

\* Validate walking whatever it is handed
ValidateNoKindCheck(v, s) ==
    LET acc == validateStruct(v, s.sub, [errors |-> <<>>, evals |-> <<>>])
    IN  [ret   |-> IF Len(acc.errors) > 0
                   THEN [kind |-> "errors", errs |-> acc.errors]
                   ELSE [kind |-> "nil", errs |-> <<>>],
         evals |-> acc.evals]

Validate(v, s) ==
    LET valKind == IF s.kind = "ptr" THEN s.elemKind ELSE s.kind IN
    IF valKind # "struct"
    THEN [ret   |-> [kind |-> "expected struct", errs |-> <<>>],
          evals |-> <<>>]
    ELSE LET acc == validateStruct(v, s.sub, [errors |-> <<>>, evals |-> <<>>])
         IN  [ret   |-> IF Len(acc.errors) > 0
                        THEN [kind |-> "errors", errs |-> acc.errors]
                        ELSE [kind |-> "nil", errs |-> <<>>],
              evals |-> acc.evals]

(***************************************************************************)
(* the records validated                                                   *)
(***************************************************************************)
Field(name, kind, tag, str, num) ==
    [name |-> name, exported |-> TRUE, anonymous |-> FALSE, kind |-> kind,
     validate |-> tag, label |-> "", json |-> "", str |-> str, num |-> num,
     sub |-> <<>>]

String(name, tag, s) == Field(name, "string", tag, s, 0)
Number(name, kind, tag, n) == Field(name, kind, tag, "", n)
Unexported(f) == [f EXCEPT !.exported = FALSE]
\* an embedded (anonymous) struct field and a named struct field
Embedded(name, tag, sub) ==
    [Field(name, "struct", tag, "", 0) EXCEPT !.anonymous = TRUE, !.sub = sub]
Nested(name, tag, sub) == [Field(name, "struct", tag, "", 0) EXCEPT !.sub = sub]

Struct(fields) == [kind |-> "struct", elemKind |-> "", sub |-> fields]
PointerTo(s) == [kind |-> "ptr", elemKind |-> s.kind, sub |-> s.sub]
NoRecord == [kind |-> "none", elemKind |-> "", sub |-> <<>>]

\* handler.RegisterRequest extended with the README's Email field, handed to
\* Validate by pointer as BindAndValidate does
RegisterRequests ==
    { PointerTo(Struct(<<String("Username", "required,min=3,max=50", u),
                         String("Password", "required,min=6,max=20", p),
                         String("Email", "email", e)>>)) :
        u \in {"", "ab", "abc"},
        p \in {"abcdef1", "abc"},
        e \in {"", "not-an-email", "a@b.co"} }

\* a record with an embedded struct (itself embedding one), an unexported
\* field, a named struct field and a field under the README's custom rule
Articles ==
    { Struct(<<String("Title", "zzz, required", t),
               Embedded("Base", "required",
                        <<Number("ID", "uint", "required", id),
                          Embedded("Audit", "",
                                   <<String("By", "required,min=2", by)>>),
                          String("Name", "min=2", "a")>>),
               Unexported(String("secret", "required", "")),
               Nested("Meta", "", <<String("Key", "required", "")>>),
               Number("Number", "int", "even", k)>>) :
        t \in {"", "t"}, id \in {0, 1}, by \in {"", "x", "xy"}, k \in {2, 3} }

\* the integers written as rule parameters and held by numeric fields
MaxN == 3

Ints == (0 - MaxN)..MaxN

\* rule parameters: every integer of Ints in decimal, an explicitly signed one,
\* and texts that are no number
NonNumbers == {"abc", "bad", "", "1x"}
Params == {FormatInt(n) : n \in Ints} \cup {"+2"} \cup NonNumbers

\* the values a single field takes: [kind, str, num]
FieldValues ==
    {[kind |-> "int", str |-> "", num |-> n] : n \in Ints \cup {5}}
    \cup {[kind |-> "uint", str |-> "", num |-> n] : n \in 0..MaxN}
    \cup {[kind |-> "float", str |-> "", num |-> h] :
             h \in (0 - 2 * MaxN)..(2 * MaxN)}
    \cup {[kind |-> "string", str |-> s, num |-> 0] :
             s \in {"", " ", "ab", "abcde"}}
    \cup {[kind |-> k, str |-> "", num |-> n] :
             k \in {"slice", "bool"}, n \in {0, 1}}

Holding(name, tag, val) == Field(name, val.kind, tag, val.str, val.num)

\* the rules that take one numeric parameter
ParamRules == {"min", "max", "len", "eq", "ne", "gt", "gte", "lt", "lte"}

\* one field under one rule: a parameterised rule, or an unknown rule name
\* followed by a known rule
SingleRules ==
    {name \o "=" \o param : name \in ParamRules, param \in Params}
    \cup {"zzz=" \o param \o ",required" : param \in Params}
    \cup {"zzz", "range=1", "range=1-2-3"}

Singles ==
    {Struct(<<Holding("X", rule, val)>>) : rule \in SingleRules, val \in FieldValues}

\* three fields holding the same value, under range=a-b, min=a and max=b
RangeTriples ==
    {Struct(<<Holding("R", "range=" \o a \o "-" \o b, val),
              Holding("Lo", "min=" \o a, val),
              Holding("Hi", "max=" \o b, val)>>) :
        a \in Params, b \in Params, val \in FieldValues}

\* the same number x held in a signed, an unsigned and a floating-point field,
\* all under the same bound
KindRecords ==
    {Struct(<<Number("I", "int", rule \o "=" \o FormatInt(n), x),
              Number("U", "uint", rule \o "=" \o FormatInt(n), x),
              Number("F", "float", rule \o "=" \o FormatInt(n), 2 * x)>>) :
        rule \in {"min", "max"}, n \in Ints, x \in 0..MaxN}

\* one field of every kind under required, alone and before another rule
RequiredValues ==
    FieldValues
    \cup {[kind |-> "string", str |-> s, num |-> 0] : s \in {"\t ", " a "}}
    \cup {[kind |-> k, str |-> "", num |-> n] :
             k \in {"map", "array", "ptr", "interface"}, n \in {0, 1}}

RequiredRecords ==
    {Struct(<<Holding("X", rule, val)>>) :
        rule \in {"required", "required,len=9"}, val \in RequiredValues}

\* strings of two to six runes, some of them wide, under min=3,max=5
LengthRecords ==
    {Struct(<<String("X", "min=3,max=5", str)>>) :
        str \in {"ab", "abc", "abcd", "abcde", "abcdef",
                 "~~", "~~~", "a~~b", "~~~~~", "~~~~~~"}}

\* the rules that match a string against a fixed pattern
FormatRules ==
    {"email", "phone", "url", "ip", "alpha", "alphanum", "numeric", "number",
     "username", "idcard"}

FormatRecords ==
    {Struct(<<String("X", rule \o ",required", str)>>) :
        rule \in FormatRules, str \in {"", "!"}}

\* oneof lists with the tokens each one lists
OneOfLists ==
    {[param |-> "male female", allowed |-> {"male", "female"}],
     [param |-> "1 2 -3", allowed |-> {"1", "2", "-3"}],
     [param |-> "01 +2 x", allowed |-> {"01", "+2", "x"}],
     [param |-> "0", allowed |-> {"0"}]}

OneOfRecords ==
    {Struct(<<Holding("X", "oneof=" \o l.param, val)>>) :
        l \in OneOfLists,
        val \in FieldValues
                \cup {[kind |-> "string", str |-> str, num |-> 0] :
                         str \in {"male", "female", "other", "male female",
                                  "x", "0", "1"}}}

\* one value under eq=p and under ne=p
EqNeRecords ==
    {Struct(<<Holding("Eq", "eq=" \o param, val),
              Holding("Ne", "ne=" \o param, val)>>) :
        param \in Params, val \in FieldValues}

PureInputs ==
    Singles \cup RangeTriples \cup KindRecords \cup RequiredRecords
    \cup LengthRecords \cup FormatRecords \cup OneOfRecords \cup EqNeRecords

\* records none of whose fields carries a rule annotation
PlainRecords ==
    { Struct(<<String("Keyword", "", s), Number("Page", "int", "-", n),
               Nested("Meta", "", <<String("Key", "required", "")>>)>>) :
        s \in {"", "go"}, n \in {0, 1} }

\* a scalar, a pointer to a scalar, a nil pointer, a pointer to a pointer to a
\* struct, and nil (whose reflect.Value is the zero Value, of kind Invalid)
NonRecords ==
    { [kind |-> "int", elemKind |-> "", sub |-> <<>>],
      [kind |-> "string", elemKind |-> "", sub |-> <<>>],
      [kind |-> "ptr", elemKind |-> "int", sub |-> <<>>],
      [kind |-> "ptr", elemKind |-> "invalid", sub |-> <<>>],
      [kind |-> "ptr", elemKind |-> "ptr",
       sub |-> <<String("Name", "required", "")>>],
      [kind |-> "invalid", elemKind |-> "", sub |-> <<>>] }

\* a field with its label and json struct tags
Labelled(f, label, json) == [f EXCEPT !.label = label, !.json = json]

\* the README's LoginRequest (labels glossed in ASCII), with an age under
\* range and the README's Request.Number under the custom rule "even"
LoginRequests ==
    { PointerTo(Struct(
          <<Labelled(String("Username", "required,min=3,max=50", u),
                     "user name", "username"),
            Labelled(String("Password", "required,min=6", "abcdef1"),
                     "", "password,omitempty"),
            Labelled(String("Email", "email", e), "", "-"),
            Number("Age", "int", "range=1-3", a),
            Labelled(Number("Number", "int", "even=x", k), "number", "")>>)) :
        u \in {"", "abc"}, e \in {"bad", "a@b.co"}, a \in {0, 2}, k \in {2, 3} }

\* a record with an embedded struct and an unexported field, and a nil pointer
ConcInputs ==
    { Struct(<<String("Name", "required,min=2", n),
               Embedded("Base", "", <<Number("Number", "int", "even", 3)>>),
               Unexported(String("secret", "required", ""))>>) :
        n \in {"", "ab"} }
    \cup {[kind |-> "ptr", elemKind |-> "invalid", sub |-> <<>>]}

\* the records walked step by step
WalkInputs ==
    ConcInputs
    \cup { Struct(<<String("Title", "zzz, required", t),
                    Embedded("Base", "required",
                             <<Number("ID", "uint", "required", 0),
                               Embedded("Audit", "",
                                        <<String("By", "required,min=2", by)>>),
                               String("Name", "min=2", "a")>>),
                    Nested("Meta", "", <<String("Key", "required", "")>>),
                    Embedded("Empty", "", <<>>)>>) :
             t \in {"", "t"}, by \in {"x", "xy"} }

\* annotations with the rules each one lists, written out by hand
GrammarCases ==
    {[annotation |-> "zzz", rules |-> <<[tag |-> "zzz", param |-> ""]>>],
     [annotation |-> " zzz , yyy=1 ",
      rules |-> <<[tag |-> "zzz", param |-> ""], [tag |-> "yyy", param |-> "1"]>>],
     [annotation |-> "zzz,,yyy, ,www",
      rules |-> <<[tag |-> "zzz", param |-> ""], [tag |-> "yyy", param |-> ""],
                  [tag |-> "www", param |-> ""]>>],
     [annotation |-> "yyy=a=b", rules |-> <<[tag |-> "yyy", param |-> "a=b"]>>],
     [annotation |-> "contains=a=b,zzz==",
      rules |-> <<[tag |-> "contains", param |-> "a=b"],
                  [tag |-> "zzz", param |-> "="]>>],
     [annotation |-> "yyy=", rules |-> <<[tag |-> "yyy", param |-> ""]>>],
     [annotation |-> "=x", rules |-> <<[tag |-> "", param |-> "x"]>>],
     [annotation |-> "-,zzz",
      rules |-> <<[tag |-> "-", param |-> ""], [tag |-> "zzz", param |-> ""]>>],
     [annotation |-> "", rules |-> <<>>],
     [annotation |-> "-", rules |-> <<>>],
     [annotation |-> ",", rules |-> <<>>],
     [annotation |-> " ", rules |-> <<>>]}

GrammarRecords ==
    {Struct(<<String("X", c.annotation, str)>>) :
        c \in GrammarCases, str \in {"a=b", "xa=by"}}

\* an embedded struct under an annotation of its own, a named struct field
\* under required, a named struct field without annotation, a plain field
EmbeddingRecords ==
    {Struct(<<Embedded("Base", "email",
                       <<String("A", "required", a),
                         Number("B", "int", "min=1", b),
                         Embedded("Audit", "min=9",
                                  <<String("By", "required", by)>>)>>),
              Nested("Meta", "required", <<String("Key", "required", key)>>),
              Nested("Plain", "", <<String("Other", "email", "bad")>>),
              String("Z", "required", z)>>) :
        a \in {"", "a"}, b \in {0, 1}, by \in {"", "x"}, key \in {"", "k"},
        z \in {"", "z"}}

\* label and json tags of a field named Name, with the label each one gives
LabelCases ==
    {[label |-> "user name", json |-> "username", expect |-> "user name"],
     [label |-> "user name", json |-> "", expect |-> "user name"],
     [label |-> "user name", json |-> "-", expect |-> "user name"],
     [label |-> "", json |-> "username", expect |-> "username"],
     [label |-> "", json |-> "username,omitempty", expect |-> "username"],
     [label |-> "", json |-> "a,b,c", expect |-> "a"],
     [label |-> "", json |-> ",omitempty", expect |-> ""],
     [label |-> "", json |-> "", expect |-> "Name"],
     [label |-> "", json |-> "-", expect |-> "Name"]}

LabelRecords ==
    {Struct(<<Labelled(String("Name", "required,min=3", str), c.label, c.json)>>) :
        c \in LabelCases, str \in {"", "ab", "abc"}}

\* password annotations with the least length each one asks for
PasswordCases ==
    {[rule |-> "password", minLen |-> 6], [rule |-> "password=4", minLen |-> 4],
     [rule |-> "password=10", minLen |-> 10]}

\* passwords of one-byte characters and passwords holding wide runes
PasswordTexts ==
    {"", "a1", "abc1", "abcd", "1234", "abc12", "abcde1", "abcdefghi1",
     "ABC123", "a 1 b 2", "~1a", "~~1a", "~~~~1a"}

PasswordRecords ==
    {Struct(<<String("Password", c.rule, str)>>) :
        c \in PasswordCases, str \in PasswordTexts}

\* a field under a rule whose parameter is written with a comma
CommaRecords ==
    {Struct(<<String("Code", "regex=^a{1,3}$", str)>>) :
        str \in {"", "a", "aa", "aaaa", "b", "a{1", "a{1,3}"}}
    \cup {Struct(<<String("Csv", "contains=a,b", str)>>) :
              str \in {"a,b", "a", "b"}}

\* the records of the rule grammar, the walk, the labels and the messages
RuleInputs ==
    GrammarRecords \cup EmbeddingRecords \cup LabelRecords \cup PasswordRecords
    \cup CommaRecords

CatalogInputs ==
    LoginRequests \cup {[kind |-> "ptr", elemKind |-> "invalid", sub |-> <<>>]}

SpecInputs == RegisterRequests \cup Articles \cup PlainRecords \cup NonRecords

\* the rule names callers register: a built-in's name and a name of their own
RegisteredNames == {"email", "even"}

\* the number of RegisterValidator calls followed
MaxRegistrations == 2

\* the catalog entries callers set: a built-in's message and the message of a
\* rule name of their own
MessageTags == {"required", "even"}
MessageTexts == {"{field} is missing", "{field} must be even ({param})"}

(***************************************************************************)
(* goroutines                                                              *)
(***************************************************************************)
Threads == {"g1", "g2"}

\* a goroutine outside every call of the package
IdleThread ==
    [pc |-> "idle", rec |-> NoRecord, path |-> <<>>, rules |-> <<>>, k |-> 0,
     tag |-> "", param |-> "", errors |-> <<>>,
     ret |-> NoResult, name |-> "", arg |-> "", torn |-> FALSE,
     overlapped |-> FALSE, visited |-> <<>>, evaluated |-> <<>>]

\* no request helper and no ValidateVar call made yet
NoCall ==
    [op |-> "", bound |-> FALSE, ret |-> NoResult, evals |-> <<>>,
     value |-> NoRecord, rules |-> "", body |-> "", err |-> "nil",
     processed |-> FALSE]

(***************************************************************************)
(* the state machine                                                       *)
(***************************************************************************)
\* New(): an empty custom rule table
Init ==
    /\ validators = <<>>
    /\ messages = defaultMessages
    /\ regLog = <<>>
    /\ rec = NoRecord
    /\ result = NoResult
    /\ evals = <<>>
    /\ returned = <<>>
    /\ threads = [t \in Threads |-> IdleThread]
    /\ race = FALSE
    /\ instances = <<>>
    /\ heap = <<>>
    /\ reply = NoCall

\* the caller binds a request into the record it will hand to Validate
Bind(s) ==
    /\ rec' = s
    /\ result' = NoResult
    /\ evals' = <<>>
    /\ returned' = <<>>
    /\ UNCHANGED <<validators, messages, regLog, conc, outside>>

\* the default validator as Validate reads it
defaultValidator == [validators |-> validators, messages |-> messages]

\* returned once one more call has returned ret
Returning(ret) ==
    IF returned = <<>> THEN <<ret>> ELSE <<returned[Len(returned)], ret>>

\* Validate keeping the errors of the call before in the error set
ValidateCallAccumulating ==
    /\ rec # NoRecord
    /\ LET out == Validate(defaultValidator, rec)
           ret == IF Len(result.errs) + Len(out.ret.errs) > 0
                  THEN [kind |-> "errors", errs |-> result.errs \o out.ret.errs]
                  ELSE out.ret
       IN  /\ result' = ret
           /\ evals' = out.evals
           /\ returned' = Returning(ret)
    /\ UNCHANGED <<validators, messages, regLog, rec, conc, outside>>

\* Validate storing each formatted message back into the catalog
ValidateCallCachingMessages ==
    /\ rec # NoRecord
    /\ LET out == Validate(defaultValidator, rec) IN
           /\ result' = out.ret
           /\ evals' = out.evals
           /\ returned' = Returning(out.ret)
           /\ messages' =
                 [t \in DOMAIN messages \cup
                        {out.ret.errs[k].Tag : k \in 1..Len(out.ret.errs)} |->
                     IF \E k \in 1..Len(out.ret.errs) : out.ret.errs[k].Tag = t
                     THEN out.ret.errs[CHOOSE k \in 1..Len(out.ret.errs) :
                                          out.ret.errs[k].Tag = t].Message
                     ELSE messages[t]]
    /\ UNCHANGED <<validators, regLog, rec, conc, outside>>

\* Validate(rec) on the default validator
ValidateCall ==
    /\ rec # NoRecord
    /\ LET out == Validate(defaultValidator, rec) IN
           /\ result' = out.ret
           /\ evals' = out.evals
           /\ returned' = Returning(out.ret)
    /\ UNCHANGED <<validators, messages, regLog, rec, conc, outside>>

\* RegisterValidator keeping the predicate a name already has
RegisterValidatorKeepFirst(name, fn) ==
    /\ Len(regLog) < MaxRegistrations
    /\ validators' = [n \in DOMAIN validators \cup {name} |->
                         IF n \in DOMAIN validators THEN validators[n] ELSE fn]
    /\ regLog' = Append(regLog, [name |-> name, fn |-> fn])
    /\ returned' = <<>>
    /\ UNCHANGED <<messages, rec, result, evals, conc, outside>>

\* v.validators[name] = fn
RegisterValidator(name, fn) ==
    /\ Len(regLog) < MaxRegistrations
    /\ validators' = [n \in DOMAIN validators \cup {name} |->
                         IF n = name THEN fn ELSE validators[n]]
    /\ regLog' = Append(regLog, [name |-> name, fn |-> fn])
    /\ returned' = <<>>
    /\ UNCHANGED <<messages, rec, result, evals, conc, outside>>

\* v.messages[tag] = message
SetMessage(tag, message) ==
    /\ messages' = [t \in DOMAIN messages \cup {tag} |->
                       IF t = tag THEN message ELSE messages[t]]
    /\ returned' = <<>>
    /\ UNCHANGED <<validators, regLog, rec, result, evals, conc, outside>>

Next ==
    \/ \E s \in SpecInputs : Bind(s)
    \/ ValidateCall
    \/ \E name \in RegisteredNames, fn \in ValidatorFuncs :
           RegisterValidator(name, fn)

Spec == Init /\ [][Next]_vars

\* The default validator with its message catalog being set as well
NextCatalog ==
    \/ \E s \in CatalogInputs : Bind(s)
    \/ ValidateCall
    \/ \E fn \in ValidatorFuncs : RegisterValidator("even", fn)
    \/ \E tag \in MessageTags, message \in MessageTexts :
           SetMessage(tag, message)

SpecCatalog == Init /\ [][NextCatalog]_vars

\* One Validate call of a fresh validator on each record of PureInputs
InitPure ==
    /\ validators = <<>>
    /\ messages = defaultMessages
    /\ regLog = <<>>
    /\ rec \in PureInputs
    /\ result = NoResult
    /\ evals = <<>>
    /\ returned = <<>>
    /\ threads = [t \in Threads |-> IdleThread]
    /\ race = FALSE
    /\ instances = <<>>
    /\ heap = <<>>
    /\ reply = NoCall

SpecPure == InitPure /\ [][ValidateCall]_vars

\* One Validate call of a fresh validator on each record of RuleInputs
InitRules ==
    /\ validators = <<>>
    /\ messages = defaultMessages
    /\ regLog = <<>>
    /\ rec \in RuleInputs
    /\ result = NoResult
    /\ evals = <<>>
    /\ returned = <<>>
    /\ threads = [t \in Threads |-> IdleThread]
    /\ race = FALSE
    /\ instances = <<>>
    /\ heap = <<>>
    /\ reply = NoCall

SpecRules == InitRules /\ [][ValidateCall]_vars

(***************************************************************************)
(* the same calls made from several goroutines, step by step               *)
(*                                                                         *)
(* A goroutine's Validate call is at a position of the walk: pc "fields"   *)
(* in the field loop of validateStruct, path holding the loop index of     *)
(* every nested validateStruct call; pc "rules" in the rule loop of that   *)
(* field, before rule k of its local rules; pc "lookup" inside the read of *)
(* v.validators[tag], tag and param being the locals parseRule set; pc     *)
(* "format" inside the read of v.messages[tag]. RegisterValidator is       *)
(* inside its map write at pc "store" and SetMessage at pc "setmsg". No    *)
(* lock orders these accesses: two that overlap on one map, one of them a  *)
(* write, are a data race, after which the access yields any value the map *)
(* may have held, or the runtime's fatal "concurrent map" error.           *)
(***************************************************************************)
\* what the goroutines' steps leave alone
seq == <<regLog, rec, result, evals, returned>>

CallPcs == {"fields", "rules", "lookup", "format"}
WritePcs == {"store", "setmsg"}
AccessPcs == {"lookup", "format", "store", "setmsg"}

\* the process has not died of a runtime fatal error
Running == \A u \in Threads : threads[u].pc # "fatal"

\* another goroutine is inside one of the accesses hit
Conflict(t, hit) == \E u \in Threads \ {t} : threads[u].pc \in hit

\* the goroutines once t is at th: the accesses hit of the others are torn,
\* and a registration (mark) overlaps every call under way
Moved(t, th, hit, mark) ==
    [u \in Threads |->
        IF u = t THEN th
        ELSE [threads[u] EXCEPT
                 !.torn = @ \/ threads[u].pc \in hit,
                 !.overlapped = @ \/ (mark /\ threads[u].pc \in CallPcs)]]

\* the struct whose fields the innermost validateStruct call walks
RECURSIVE StructAt(_, _)
StructAt(fields, path) ==
    IF Len(path) <= 1 THEN fields
    ELSE StructAt(fields[path[1]].sub, Tail(path))

\* the field the walk is at
FieldOf(th) == StructAt(th.rec.sub, th.path)[th.path[Len(th.path)]]

\* i++ of the innermost field loop
NextField(path) == [path EXCEPT ![Len(path)] = @ + 1]

\* Validate(s) is called: the kind check, then the walk starts
Call(t, s) ==
    /\ Running
    /\ threads[t].pc = "idle"
    /\ threads' =
          Moved(t,
                IF (IF s.kind = "ptr" THEN s.elemKind ELSE s.kind) # "struct"
                THEN [IdleThread EXCEPT
                         !.pc = "done", !.rec = s,
                         !.ret = [kind |-> "expected struct", errs |-> <<>>],
                         !.overlapped = Conflict(t, WritePcs)]
                ELSE [IdleThread EXCEPT
                         !.pc = "fields", !.rec = s, !.path = <<1>>,
                         !.overlapped = Conflict(t, WritePcs)],
                {}, FALSE)
    /\ UNCHANGED <<validators, messages, race, seq, outside>>

\* the field loop ending without i++ in the loop of the embedding struct
fieldLoopEndNoAdvance(th) ==
    IF Len(th.path) = 1
    THEN [th EXCEPT !.pc = "done",
                    !.ret = IF Len(th.errors) > 0
                            THEN [kind |-> "errors", errs |-> th.errors]
                            ELSE [kind |-> "nil", errs |-> <<>>]]
    ELSE [th EXCEPT !.path = SubSeq(th.path, 1, Len(th.path) - 1)]

\* the field loop of a validateStruct call ends: the outermost call returns to
\* Validate, which returns; a nested one returns into the loop it came from
fieldLoopEnd(th) ==
    IF Len(th.path) = 1
    THEN [th EXCEPT !.pc = "done",
                    !.ret = IF Len(th.errors) > 0
                            THEN [kind |-> "errors", errs |-> th.errors]
                            ELSE [kind |-> "nil", errs |-> <<>>]]
    ELSE [th EXCEPT !.path = NextField(SubSeq(th.path, 1, Len(th.path) - 1))]

\* one field of the loop: skipped, walked into, or handed to the rule loop
fieldVisit(th, field) ==
    IF ~field.exported
    THEN [th EXCEPT !.path = NextField(th.path),
                    !.visited = Append(@, th.path)]
    ELSE IF field.kind = "struct" /\ field.anonymous
    THEN [th EXCEPT !.path = Append(th.path, 1),
                    !.visited = Append(@, th.path)]
    ELSE IF field.validate = "" \/ field.validate = "-"
    THEN [th EXCEPT !.path = NextField(th.path),
                    !.visited = Append(@, th.path)]
    ELSE [th EXCEPT !.pc = "rules", !.k = 1,
                    !.rules = Split(field.validate, ","),
                    !.visited = Append(@, th.path)]

FieldStep(t) ==
    /\ Running
    /\ threads[t].pc = "fields"
    /\ threads' =
          Moved(t,
                IF threads[t].path[Len(threads[t].path)]
                       > Len(StructAt(threads[t].rec.sub, threads[t].path))
                THEN fieldLoopEnd(threads[t])
                ELSE fieldVisit(threads[t], FieldOf(threads[t])),
                {}, FALSE)
    /\ UNCHANGED <<validators, messages, race, seq, outside>>

\* the rule loop has parsed the non-empty rule pr and validateField begins
\* its map read
ruleLookup(t, th, pr) ==
    /\ threads' = Moved(t, [th EXCEPT !.pc = "lookup",
                                      !.tag = pr.tag, !.param = pr.param,
                                      !.torn = Conflict(t, {"store"})],
                        {"store"}, FALSE)
    /\ race' = (race \/ Conflict(t, {"store"}))

\* one turn of the rule loop up to the map read of validateField
RuleStep(t) ==
    /\ Running
    /\ threads[t].pc = "rules"
    /\ IF threads[t].k > Len(threads[t].rules)
       THEN /\ threads' = Moved(t, [threads[t] EXCEPT
                                      !.pc = "fields", !.k = 0,
                                      !.path = NextField(@)],
                                {}, FALSE)
            /\ race' = race
       ELSE \E rule \in {TrimSpace(threads[t].rules[threads[t].k])} :
               IF rule = ""
               THEN /\ threads' = Moved(t, [threads[t] EXCEPT !.k = @ + 1],
                                        {}, FALSE)
                    /\ race' = race
               ELSE \E pr \in {parseRule(rule)} : ruleLookup(t, threads[t], pr)
    /\ UNCHANGED <<validators, messages, seq, outside>>

\* what a read of v.validators[tag] that raced with a write may see
TornValidators(tag) ==
    {validators, <<>>} \cup {tag :> fn : fn \in ValidatorFuncs}

\* what a read of v.messages[tag] that raced with a write may see
TornMessages(tag) ==
    {messages, <<>>} \cup {tag :> m : m \in MessageTexts}

\* validateField returned ok for the rule the loop is at
ruleDone(t, th, ok) ==
    /\ threads' =
          Moved(t,
                IF ok
                THEN [th EXCEPT !.pc = "rules", !.k = @ + 1, !.torn = FALSE,
                                !.evaluated = Append(@, <<th.path, th.k>>)]
                ELSE [th EXCEPT !.pc = "format",
                                !.torn = Conflict(t, {"setmsg"}),
                                !.evaluated = Append(@, <<th.path, th.k>>)],
                IF ok THEN {} ELSE {"setmsg"}, FALSE)
    /\ race' = (race \/ (~ok /\ Conflict(t, {"setmsg"})))

\* the map read completes and validateField runs the predicate
LookupEnd(t) ==
    /\ Running
    /\ threads[t].pc = "lookup"
    /\ \E seen \in (IF threads[t].torn
                    THEN TornValidators(threads[t].tag)
                    ELSE {validators}) :
          \E field \in {FieldOf(threads[t])} :
              \E ok \in {validateField([validators |-> seen,
                                        messages |-> messages],
                                       field, threads[t].tag,
                                       threads[t].param)} :
                  ruleDone(t, threads[t], ok)
    /\ UNCHANGED <<validators, messages, seq, outside>>

\* formatMessage storing the formatted message back into the catalog
FormatEndCaching(t) ==
    /\ Running
    /\ threads[t].pc = "format"
    /\ threads' =
          Moved(t,
                [threads[t] EXCEPT
                    !.pc = "fields", !.k = 0, !.torn = FALSE,
                    !.path = NextField(@),
                    !.errors =
                        Append(@, ValidationError(defaultValidator,
                                                  FieldOf(threads[t]),
                                                  [tag |-> threads[t].tag,
                                           param |-> threads[t].param]))],
                {}, FALSE)
    /\ messages' =
          [n \in DOMAIN messages \cup {threads[t].tag} |->
              IF n = threads[t].tag
              THEN ValidationError(defaultValidator, FieldOf(threads[t]),
                                   [tag |-> threads[t].tag,
                                    param |-> threads[t].param]).Message
              ELSE messages[n]]
    /\ UNCHANGED <<validators, race, seq, outside>>

\* formatMessage completes, the error is appended and the rule loop is left
FormatEnd(t) ==
    /\ Running
    /\ threads[t].pc = "format"
    /\ \E seen \in (IF threads[t].torn
                    THEN TornMessages(threads[t].tag)
                    ELSE {messages}) :
          threads' =
              Moved(t,
                    [threads[t] EXCEPT
                        !.pc = "fields", !.k = 0, !.torn = FALSE,
                        !.path = NextField(@),
                        !.errors =
                            Append(@, ValidationError(
                                          [validators |-> validators,
                                           messages |-> seen],
                                          FieldOf(threads[t]),
                                          [tag |-> threads[t].tag,
                                           param |-> threads[t].param]))],
                    {}, FALSE)
    /\ UNCHANGED <<validators, messages, race, seq, outside>>

\* the caller has the result
Return(t) ==
    /\ Running
    /\ threads[t].pc = "done"
    /\ threads' = Moved(t, IdleThread, {}, FALSE)
    /\ UNCHANGED <<validators, messages, race, seq, outside>>

\* RegisterValidator(name, fn) reaches its map write
RegisterValidatorBegin(t, name, fn) ==
    /\ Running
    /\ threads[t].pc = "idle"
    /\ threads' =
          Moved(t,
                [IdleThread EXCEPT !.pc = "store", !.name = name, !.arg = fn,
                                   !.torn = Conflict(t, {"lookup", "store"})],
                {"lookup", "store"}, TRUE)
    /\ race' = (race \/ Conflict(t, {"lookup", "store"}))
    /\ UNCHANGED <<validators, messages, seq, outside>>

\* the write to v.validators completes; a write that raced may be lost
RegisterValidatorEnd(t) ==
    /\ Running
    /\ threads[t].pc = "store"
    /\ \E kept \in (IF threads[t].torn THEN {TRUE, FALSE} ELSE {TRUE}) :
          validators' =
              IF kept
              THEN [n \in DOMAIN validators \cup {threads[t].name} |->
                       IF n = threads[t].name THEN threads[t].arg
                       ELSE validators[n]]
              ELSE validators
    /\ threads' = Moved(t, IdleThread, {}, FALSE)
    /\ UNCHANGED <<messages, race, seq, outside>>

\* SetMessage(tag, message) reaches its map write
SetMessageBegin(t, tag, message) ==
    /\ Running
    /\ threads[t].pc = "idle"
    /\ threads' =
          Moved(t,
                [IdleThread EXCEPT !.pc = "setmsg", !.name = tag,
                                   !.arg = message,
                                   !.torn = Conflict(t, {"format", "setmsg"})],
                {"format", "setmsg"}, TRUE)
    /\ race' = (race \/ Conflict(t, {"format", "setmsg"}))
    /\ UNCHANGED <<validators, messages, seq, outside>>

\* the write to v.messages completes; a write that raced may be lost
SetMessageEnd(t) ==
    /\ Running
    /\ threads[t].pc = "setmsg"
    /\ \E kept \in (IF threads[t].torn THEN {TRUE, FALSE} ELSE {TRUE}) :
          messages' =
              IF kept
              THEN [n \in DOMAIN messages \cup {threads[t].name} |->
                       IF n = threads[t].name THEN threads[t].arg
                       ELSE messages[n]]
              ELSE messages
    /\ threads' = Moved(t, IdleThread, {}, FALSE)
    /\ UNCHANGED <<validators, race, seq, outside>>

\* the runtime detects the concurrent map access and kills the process
Fatal(t) ==
    /\ Running
    /\ threads[t].pc \in AccessPcs
    /\ threads[t].torn
    /\ threads' = Moved(t, [threads[t] EXCEPT !.pc = "fatal"], {}, FALSE)
    /\ UNCHANGED <<validators, messages, race, seq, outside>>

\* the steps of a Validate call under way
Walk(t) == FieldStep(t) \/ RuleStep(t) \/ LookupEnd(t) \/ FormatEnd(t)

NextConc ==
    \E t \in Threads :
        \/ \E s \in ConcInputs : Call(t, s)
        \/ FieldStep(t)
        \/ RuleStep(t)
        \/ LookupEnd(t)
        \/ FormatEnd(t)
        \/ Return(t)
        \/ \E fn \in {"even", "reject"} : RegisterValidatorBegin(t, "even", fn)
        \/ RegisterValidatorEnd(t)
        \/ SetMessageBegin(t, "required", "{field} is missing")
        \/ SetMessageEnd(t)
        \/ Fatal(t)

SpecConc == Init /\ [][NextConc]_vars

\* One goroutine at a time validating, scheduled fairly: a call under way is
\* never blocked, so its next step is eventually taken
NextWalk ==
    \E t \in Threads :
        \/ \E s \in WalkInputs : Call(t, s)
        \/ FieldStep(t)
        \/ RuleStep(t)
        \/ LookupEnd(t)
        \/ FormatEnd(t)
        \/ Return(t)

SpecWalk ==
    Init /\ [][NextWalk]_vars /\ \A t \in Threads : WF_vars(Walk(t))

(***************************************************************************)
(* the request helpers and ValidateVar                                     *)
(*                                                                         *)
(* reply records the last such call: op the function called, value the     *)
(* record (or, for ValidateVar, the value) handed to it, bound whether the *)
(* request decoded, ret and evals what Validate did, body the message of   *)
(* the response written, err the error returned, processed whether the     *)
(* README's handler went on to process the request.                        *)
(***************************************************************************)
\* what fiber's c.JSON returns: the error of the application's JSON encoder,
\* nil once the body is encoded and set
JSONResults == {"nil", "encode error"}

\* ValidationErrors.Error, and the text of Validate's fmt.Errorf error up to
\* the kind it names
ErrorText(ret) ==
    IF ret.kind = "expected struct" THEN "validator: expected struct"
    ELSE IF Len(ret.errs) = 0 THEN ""
    ELSE ret.errs[1].Message

\* response.Fail(c, message): Result(c, ERROR, message, nil), which writes the
\* body through c.JSON and returns what c.JSON returns
Fail(message, json) == [body |-> message, err |-> json]

\* the README's handler: return err when the helper returned one, else go on
Handler(call) == [call EXCEPT !.processed = (call.err = "nil")]

\* the helpers from their Validate call on
validateReply(op, req, json) ==
    LET out == Validate(defaultValidator, req)
        sent == Fail("parameter error: " \o ErrorText(out.ret), json)
    IN  [NoCall EXCEPT !.op = op, !.bound = TRUE, !.value = req,
                       !.ret = out.ret, !.evals = out.evals,
                       !.body = IF out.ret.kind # "nil" THEN sent.body ELSE "",
                       !.err = IF out.ret.kind # "nil" THEN sent.err ELSE "nil"]

\* a helper whose binding step decoded the request (decoded) or failed
bindReply(op, decoded, req, json) ==
    IF ~decoded
    THEN LET sent == Fail("malformed parameters: bind error", json)
         IN  [NoCall EXCEPT !.op = op, !.value = req,
                            !.body = sent.body, !.err = sent.err]
    ELSE validateReply(op, req, json)

BindAndValidate(decoded, req, json) ==
    /\ reply' = Handler(bindReply("BindAndValidate", decoded, req, json))
    /\ UNCHANGED <<validators, messages, seq, conc, instances, heap>>

BindQueryAndValidate(decoded, req, json) ==
    /\ reply' = Handler(bindReply("BindQueryAndValidate", decoded, req, json))
    /\ UNCHANGED <<validators, messages, seq, conc, instances, heap>>

MustValidate(req, json) ==
    /\ reply' = Handler(validateReply("MustValidate", req, json))
    /\ UNCHANGED <<validators, messages, seq, conc, instances, heap>>

\* New(): a validator with an empty custom rule table and the default catalog
New == [validators |-> <<>>, messages |-> defaultMessages]

\* validateSingleValue validating its temporary struct under the rules
validateSingleValueByStruct(value, rules) ==
    Validate(New, Struct(<<Labelled(Holding("Field", rules, value),
                                    "this field", "")>>))

\* validateSingleValue: makes a validator and a temporary struct, drops both
validateSingleValue(value, rules) ==
    [ret |-> [kind |-> "nil", errs |-> <<>>], evals |-> <<>>]

ValidateVar(value, rules) ==
    /\ LET out == validateSingleValue(value, rules) IN
           reply' = [NoCall EXCEPT !.op = "ValidateVar", !.value = value,
                                   !.rules = rules, !.ret = out.ret,
                                   !.evals = out.evals,
                                   !.err = IF out.ret.kind = "nil" THEN "nil"
                                           ELSE ErrorText(out.ret)]
    /\ UNCHANGED <<validators, messages, seq, conc, instances, heap>>

\* the requests the helpers receive: the README's LoginRequest by pointer, and
\* a pointer to a non-struct
HelperInputs ==
    { PointerTo(Struct(
          <<Labelled(String("Username", "required,min=3,max=50", u),
                     "user name", "username"),
            Labelled(String("Password", "required,min=6", "abcdef1"),
                     "password", "password"),
            Labelled(String("Email", "email", e), "email", "email")>>)) :
        u \in {"", "abc"}, e \in {"bad", "a@b.co"} }
    \cup {[kind |-> "ptr", elemKind |-> "int", sub |-> <<>>]}

\* the values and rule strings handed to ValidateVar
VarValues ==
    {[kind |-> "string", str |-> str, num |-> 0] : str \in {"", "bad", "a@b.co"}}
    \cup {[kind |-> "int", str |-> "", num |-> n] : n \in {0, 7}}
VarRules == {"required,email", "required", "min=3", "zzz", ""}

NextHelpers ==
    \/ \E decoded \in BOOLEAN, req \in HelperInputs, json \in JSONResults :
           BindAndValidate(decoded, req, json)
    \/ \E decoded \in BOOLEAN, req \in HelperInputs, json \in JSONResults :
           BindQueryAndValidate(decoded, req, json)
    \/ \E req \in HelperInputs, json \in JSONResults : MustValidate(req, json)
    \/ \E value \in VarValues, rules \in VarRules : ValidateVar(value, rules)
    \/ \E tag \in MessageTags, message \in MessageTexts :
           SetMessage(tag, message)

SpecHelpers == Init /\ [][NextHelpers]_vars

(***************************************************************************)
(* validators made by New                                                  *)
(*                                                                         *)
(* A Go map is a reference: a Validator holds references to its two maps.  *)
(* instances gives the references each validator made by New holds, heap   *)
(* the contents of the maps New allocated; the two maps of the default     *)
(* validator are the variables validators and messages.                    *)
(***************************************************************************)
InstanceNames == {"a", "b"}

Ref(owner, field) == [owner |-> owner, field |-> field]

\* New sharing one message catalog with the default validator
newSharingCatalog(i) ==
    [validators |-> Ref(i, "validators"), messages |-> Ref("default", "messages")]

\* the maps of the validator New returns: make(map[string]ValidatorFunc) and
\* the map literal defaultMessages() builds on each call
newMaps(i) ==
    [validators |-> Ref(i, "validators"), messages |-> Ref(i, "messages")]

\* the contents of a map
Deref(ref) ==
    IF ref = Ref("default", "validators") THEN validators
    ELSE IF ref = Ref("default", "messages") THEN messages
    ELSE heap[ref]

\* the validator i as its methods read it
View(i) ==
    [validators |-> Deref(instances[i].validators),
     messages |-> Deref(instances[i].messages)]

\* m[key] = val
Put(m, key, val) ==
    [n \in DOMAIN m \cup {key} |-> IF n = key THEN val ELSE m[n]]

\* the map behind ref gets key -> val
WriteMap(ref, key, val) ==
    /\ validators' = IF ref = Ref("default", "validators")
                     THEN Put(validators, key, val) ELSE validators
    /\ messages' = IF ref = Ref("default", "messages")
                   THEN Put(messages, key, val) ELSE messages
    /\ heap' = IF ref.owner # "default"
               THEN [heap EXCEPT ![ref] = Put(@, key, val)] ELSE heap

\* i := New()
NewCall(i) ==
    /\ i \notin DOMAIN instances
    /\ instances' = [n \in DOMAIN instances \cup {i} |->
                        IF n = i THEN newMaps(i) ELSE instances[n]]
    /\ heap' = [r \in DOMAIN heap
                      \cup ({newMaps(i).validators, newMaps(i).messages}
                            \ {Ref("default", "messages")}) |->
                   IF r = Ref(i, "validators") THEN <<>>
                   ELSE IF r = Ref(i, "messages") THEN defaultMessages
                   ELSE heap[r]]
    /\ UNCHANGED <<validators, messages, seq, conc, reply>>

\* i.RegisterValidator(name, fn)
InstanceRegisterValidator(i, name, fn) ==
    /\ i \in DOMAIN instances
    /\ WriteMap(instances[i].validators, name, fn)
    /\ UNCHANGED <<instances, seq, conc, reply>>

\* i.SetMessage(tag, message)
InstanceSetMessage(i, tag, message) ==
    /\ i \in DOMAIN instances
    /\ WriteMap(instances[i].messages, tag, message)
    /\ UNCHANGED <<instances, seq, conc, reply>>

\* the predicates registered under "even" on the validators
InstanceFuncs == {"even", "reject"}

NextInstances ==
    \/ \E i \in InstanceNames : NewCall(i)
    \/ \E i \in InstanceNames, fn \in InstanceFuncs :
           InstanceRegisterValidator(i, "even", fn)
    \/ \E i \in InstanceNames, message \in MessageTexts :
           InstanceSetMessage(i, "required", message)
    \/ \E fn \in InstanceFuncs : RegisterValidator("even", fn)
    \/ \E message \in MessageTexts : SetMessage("required", message)

SpecInstances == Init /\ [][NextInstances]_vars

(***************************************************************************)
(* properties                                                              *)
(***************************************************************************)
\* Validate has walked rec
Called == result.kind \in {"nil", "errors"}

RECURSIVE FieldAt(_, _)
FieldAt(fields, path) ==
    IF Len(path) = 1 THEN fields[path[1]]
    ELSE FieldAt(fields[path[1]].sub, Tail(path))

\* the rules a field's annotation lists, in annotation order
RuleTokens(f) ==
    SelectSeq(Split(f.validate, ","), LAMBDA tok : TrimSpace(tok) # "")

RulesOf(f) ==
    IF f.validate \in {"", "-"} THEN <<>>
    ELSE [k \in 1..Len(RuleTokens(f)) |-> parseRule(TrimSpace(RuleTokens(f)[k]))]

\* the exported, annotated fields the walk reaches, by position
RECURSIVE Annotated(_, _)
Annotated(fields, prefix) ==
    UNION { IF ~fields[i].exported THEN {}
            ELSE IF fields[i].kind = "struct" /\ fields[i].anonymous
            THEN Annotated(fields[i].sub, Append(prefix, i))
            ELSE IF RulesOf(fields[i]) = <<>> THEN {}
            ELSE {Append(prefix, i)} : i \in 1..Len(fields) }

EvalsAt(p) == SelectSeq(evals, LAMBDA e : e.path = p)
Failing == SelectSeq(evals, LAMBDA e : ~e.ok)
EvalPaths == {evals[k].path : k \in 1..Len(evals)}

\* the errors are the failing evaluations, one for one and in the same order
ErrorsAreFailures ==
    /\ Len(result.errs) = Len(Failing)
    /\ \A k \in 1..Len(Failing) :
          /\ result.errs[k].Field = FieldAt(rec.sub, Failing[k].path).name
          /\ result.errs[k].Tag = Failing[k].tag

\* position p comes before position q in the depth-first walk
PathBefore(p, q) ==
    \E k \in 1..Len(p) :
        /\ k <= Len(q)
        /\ p[k] < q[k]
        /\ \A j \in 1..(k - 1) : p[j] = q[j]

\* C1: the rules of a field are evaluated in annotation order up to and
\* including the first one that fails; that rule is the field's only error and
\* no later rule of the field is evaluated.
C1_FirstFailingRuleOnly ==
    Called =>
        /\ \A p \in EvalPaths :
              LET es    == EvalsAt(p)
                  rules == RulesOf(FieldAt(rec.sub, p))
              IN  /\ Len(es) <= Len(rules)
                  /\ \A k \in 1..Len(es) :
                        es[k].tag = rules[k].tag /\ es[k].param = rules[k].param
                  /\ \A k \in 1..(Len(es) - 1) : es[k].ok
                  /\ es[Len(es)].ok => Len(es) = Len(rules)
        /\ ErrorsAreFailures

\* a field reported under its first rule although a later rule was left
C1_Witness ==
    /\ Called
    /\ \E p \in EvalPaths :
          /\ ~EvalsAt(p)[Len(EvalsAt(p))].ok
          /\ Len(EvalsAt(p)) < Len(RulesOf(FieldAt(rec.sub, p)))
          /\ \E k \in 1..Len(result.errs) :
                result.errs[k].Field = FieldAt(rec.sub, p).name

C2Record ==
    PointerTo(Struct(<<String("Username", "required,min=3,max=50", "ab"),
                       String("Password", "required,min=6,max=20", "abcdef1"),
                       String("Email", "email", "not-an-email")>>))

FieldAndTag(errs) == [k \in 1..Len(errs) |-> <<errs[k].Field, errs[k].Tag>>]

\* C2: every exported annotated field is evaluated whatever the fields before
\* it did, and each one with a failing rule gives exactly one error; the
\* record Username "ab", Password "abcdef1", Email "not-an-email" gives
\* (Username, min) then (Email, email).
C2_EveryFailingFieldReported ==
    Called =>
        /\ \A p \in Annotated(rec.sub, <<>>) : EvalsAt(p) # <<>>
        /\ Len(result.errs) =
              Cardinality({p \in Annotated(rec.sub, <<>>) :
                              \E k \in 1..Len(evals) :
                                  evals[k].path = p /\ ~evals[k].ok})
        /\ regLog = <<>> =>
              \A p \in Annotated(rec.sub, <<>>) :
                  LET f == FieldAt(rec.sub, p) IN
                  (\E k \in 1..Len(RulesOf(f)) :
                       ~BuiltinRule(f, RulesOf(f)[k].tag, RulesOf(f)[k].param))
                  <=> (\E k \in 1..Len(evals) :
                           evals[k].path = p /\ ~evals[k].ok)
        /\ (rec = C2Record /\ regLog = <<>>) =>
              FieldAndTag(result.errs) =
                  <<<<"Username", "min">>, <<"Email", "email">>>>

C2_Witness ==
    /\ Called
    /\ rec = C2Record
    /\ regLog = <<>>
    /\ Len(result.errs) = 2

\* C3: the errors come in depth-first field order, an embedded record's fields
\* standing where the embedded field stands.
C3_ErrorsInDeclarationOrder ==
    Called =>
        /\ ErrorsAreFailures
        /\ \A i \in 1..Len(Failing), j \in 1..Len(Failing) :
              i < j => PathBefore(Failing[i].path, Failing[j].path)

\* errors before, inside and after an embedded record
C3_Witness ==
    /\ Called
    /\ rec \in Articles
    /\ Len(result.errs) = 5
    /\ FieldAndTag(result.errs)[1] = <<"Title", "required">>
    /\ FieldAndTag(result.errs)[2] = <<"ID", "required">>
    /\ FieldAndTag(result.errs)[3][1] = "By"
    /\ FieldAndTag(result.errs)[5] = <<"Number", "even">>

\* C4: on a record Validate returns nil exactly when no rule failed, and
\* otherwise a non-empty error set; a record without annotations gives nil.
C4_NilExactlyWhenNoFailure ==
    (result # NoResult
        /\ (IF rec.kind = "ptr" THEN rec.elemKind ELSE rec.kind) = "struct") =>
        /\ result.kind \in {"nil", "errors"}
        /\ result.kind = "nil" <=> Failing = <<>>
        /\ result.kind = "errors" <=> Len(result.errs) > 0
        /\ Annotated(rec.sub, <<>>) = {} => result.kind = "nil"

C4_Witness ==
    /\ result.kind = "nil"
    /\ rec \in PlainRecords

\* the predicate the latest registration of name n in log installed, "" if none
LastFn(log, n) ==
    LET at == {k \in 1..Len(log) : log[k].name = n} IN
    IF at = {} THEN ""
    ELSE log[CHOOSE k \in at : \A j \in at : j <= k].fn

\* every evaluation of es, made on record r, gave what the latest registration
\* in log gives, and what the built-in gives for a name never registered
UsesLatest(es, log, r) ==
    \A k \in 1..Len(es) :
        es[k].ok =
            IF LastFn(log, es[k].tag) # ""
            THEN ValidatorFunc(LastFn(log, es[k].tag),
                               FieldAt(r.sub, es[k].path), es[k].param)
            ELSE BuiltinRule(FieldAt(r.sub, es[k].path), es[k].tag, es[k].param)

\* C5: a Validate call evaluates each rule name with the predicate registered
\* last under it, built-in name or not, and with the built-in when there is
\* none; a registration changes no result already returned.
C5_LatestRegistrationWins ==
    [][/\ (result = NoResult /\ result'.kind \in {"nil", "errors"}) =>
              UsesLatest(evals', regLog, rec)
       /\ regLog' # regLog => (result' = result /\ evals' = evals)]_vars

\* "email" registered twice, the later predicate rejecting a well-formed address
C5_Witness ==
    /\ Called
    /\ Len(regLog) = 2
    /\ regLog[1] = [name |-> "email", fn |-> "accept"]
    /\ regLog[2] = [name |-> "email", fn |-> "reject"]
    /\ \E k \in 1..Len(result.errs) :
          result.errs[k].Tag = "email" /\ result.errs[k].Value.str = "a@b.co"

\* C6: a rule name that is neither registered nor built in passes for every
\* value and parameter, is never reported, and the rules after it are evaluated.
C6_UnknownRulePasses ==
    Called =>
        /\ \A k \in 1..Len(evals) :
              evals[k].tag \notin BuiltinNames \cup DOMAIN validators
                  => evals[k].ok
        /\ \A k \in 1..Len(result.errs) :
              result.errs[k].Tag \in BuiltinNames \cup DOMAIN validators
        /\ \A p \in EvalPaths :
              \A k \in 1..Len(EvalsAt(p)) :
                  (EvalsAt(p)[k].tag \notin BuiltinNames \cup DOMAIN validators
                      /\ k < Len(RulesOf(FieldAt(rec.sub, p))))
                  => Len(EvalsAt(p)) > k

\* the unknown rule passed and the rule after it was evaluated and failed
C6_Witness ==
    /\ Called
    /\ Len(evals) = 2
    /\ evals[1].tag = "zzz" /\ evals[1].param = "abc" /\ evals[1].ok
    /\ FieldAndTag(result.errs) = <<<<"X", "required">>>>

\* a text that is a decimal number
IsNumber(param) == ParseFloat(param).ok

NumericKinds == {"int", "uint", "float"}

\* C7: min, max, len, the bounds of range, and eq/ne/gt/gte/lt/lte on a numeric
\* field fail whenever the parameter is not a number.
C7_UnparsableParameterFails ==
    Called =>
        \A k \in 1..Len(evals) :
            LET e == evals[k]
                f == FieldAt(rec.sub, e.path)
            IN  /\ (e.tag \in {"min", "max", "len"} /\ ~IsNumber(e.param))
                       => ~e.ok
                /\ (e.tag \in {"eq", "ne", "gt", "gte", "lt", "lte"}
                       /\ f.kind \in NumericKinds /\ ~IsNumber(e.param))
                       => ~e.ok
                /\ (e.tag = "range" /\ Len(Split(e.param, "-")) = 2
                       /\ \E i \in 1..2 : ~IsNumber(Split(e.param, "-")[i]))
                       => ~e.ok

\* C8: on a numeric field min=n passes exactly when the value is >= n and
\* max=n exactly when it is <= n, alike for int, uint and float fields.
C8_NumericBoundsKindGeneric ==
    Called =>
        /\ \A k \in 1..Len(evals) :
              LET e == evals[k]
                  f == FieldAt(rec.sub, e.path)
                  n == Atoi(e.param)
                  twice == IF f.kind = "float" THEN f.num ELSE 2 * f.num
              IN  (f.kind \in NumericKinds /\ n.ok) =>
                      /\ e.tag = "min" => (e.ok <=> twice >= 2 * n.val)
                      /\ e.tag = "max" => (e.ok <=> twice <= 2 * n.val)
        /\ rec \in KindRecords =>
              (evals[1].ok = evals[2].ok /\ evals[2].ok = evals[3].ok)

\* C9: range=a-b passes exactly when min=a and max=b both pass on the same
\* field and value, for all integers a and b.
C9_RangeIsMinAndMax ==
    (Called /\ rec \in RangeTriples
        /\ Atoi(evals[2].param).ok /\ Atoi(evals[3].param).ok) =>
        (evals[1].ok <=> (evals[2].ok /\ evals[3].ok))

\* C10: range=a-b fails for every field value when a or b is not a number.
C10_RangeWithBadBoundFails ==
    (Called /\ rec \in RangeTriples
        /\ (~IsNumber(evals[2].param) \/ ~IsNumber(evals[3].param))) =>
        /\ ~evals[1].ok
        /\ FieldAndTag(result.errs)[1] = <<"R", "range">>

\* range=1-bad on an integer field holding 5
C10_Witness ==
    /\ Called
    /\ rec \in RangeTriples
    /\ rec.sub[1].validate = "range=1-bad"
    /\ rec.sub[1].kind = "int" /\ rec.sub[1].num = 5
    /\ FieldAndTag(result.errs)[1] = <<"R", "range">>

\* C16: handed anything but a struct or a pointer to a struct, Validate
\* returns the "expected struct" error, which is no validation error set, and
\* evaluates no rule; handed a struct or a pointer to one it never does.
C16_NonRecordIsStructuralError ==
    returned # <<>> =>
        /\ rec \in NonRecords =>
              (result.kind = "expected struct" /\ result.errs = <<>>
                  /\ evals = <<>>)
        /\ result.kind = "expected struct" <=>
              (IF rec.kind = "ptr" THEN rec.elemKind ELSE rec.kind) # "struct"

\* a pointer to a pointer to a struct whose field would fail required
C16_Witness ==
    /\ returned # <<>>
    /\ rec.kind = "ptr" /\ rec.elemKind = "ptr" /\ Len(rec.sub) = 1
    /\ result.kind = "expected struct"

\* C17: two Validate calls on the same record with no registration between
\* them return the same error set: fields, rule names, messages and order.
C17_ValidateTwiceSameResult ==
    Len(returned) = 2 =>
        /\ returned[1] = returned[2]
        /\ result = returned[2]

\* the second call reported three errors again, one under a message that
\* SetMessage installed
C17_Witness ==
    /\ Len(returned) = 2
    /\ result.kind = "errors"
    /\ Len(result.errs) = 3
    /\ result.errs[1].Message = "user name is missing"

\* C18: a Validate call every rule of which is a built-in changes neither the
\* record nor the custom rule table nor the message catalog, whatever it
\* returns.
C18_ValidateChangesNothing ==
    [][(returned' # <<>>
          /\ \A k \in 1..Len(evals') : evals'[k].tag \notin DOMAIN validators)
       => (rec' = rec /\ validators' = validators /\ messages' = messages)]_vars

\* calls that returned an error set; nil and the structural error are reached
\* from the same catalog
C18_Witness ==
    /\ returned # <<>>
    /\ validators = <<>>
    /\ result.kind = "errors"
    /\ result.errs[1].Message = "user name must not be empty"

\* a field holding its kind's zero value in the sense of required
Blank(str) == \A i \in 1..Len(str) : Char(str, i) \in {" ", "\t", "\n", "\r"}

ZeroValued(f) == IF f.kind = "string" THEN Blank(f.str) ELSE f.num = 0

\* C11: required fails on a blank string, an empty sequence or map, a nil
\* pointer and a numeric zero, passes on every other value of those kinds and
\* on both booleans; where it fails as the first rule it is the rule reported.
C11_RequiredFailsOnZeroValue ==
    (Called /\ rec \in RequiredRecords) =>
        LET f == rec.sub[1] IN
        /\ evals[1].tag = "required"
        /\ evals[1].ok <=> (f.kind = "bool" \/ ~ZeroValued(f))
        /\ ~evals[1].ok => FieldAndTag(result.errs) = <<<<"X", "required">>>>

\* false passes required, and a whitespace string is reported under it
C11_Witness ==
    /\ Called
    /\ rec \in RequiredRecords
    /\ \/ rec.sub[1].kind = "bool" /\ rec.sub[1].num = 0 /\ result.kind = "nil"
       \/ rec.sub[1].str = "\t " /\ result.kind = "errors"
    /\ rec.sub[1].validate = "required"

\* C12: on a string min=n passes exactly when it has at least n runes and
\* max=n exactly when it has at most n, whatever its length in bytes; under
\* min=3,max=5 three to five runes pass and two or six fail.
C12_StringBoundsCountRunes ==
    Called =>
        /\ \A k \in 1..Len(evals) :
              LET e == evals[k]
                  f == FieldAt(rec.sub, e.path)
                  n == Atoi(e.param)
              IN  (f.kind = "string" /\ n.ok) =>
                      /\ e.tag = "min" => (e.ok <=> Len(f.str) >= n.val)
                      /\ e.tag = "max" => (e.ok <=> Len(f.str) <= n.val)
        /\ rec \in LengthRecords =>
              (result.kind = "nil" <=> Len(rec.sub[1].str) \in 3..5)

\* four runes in eight bytes pass max=5
C12_Witness ==
    /\ Called
    /\ rec \in LengthRecords
    /\ rec.sub[1].str = "a~~b"
    /\ ByteLen(rec.sub[1].str) = 8
    /\ result.kind = "nil"

\* C13: every format rule passes on the empty string, so an empty string
\* under "<format rule>,required" is reported under required.
C13_FormatRulesPassOnEmpty ==
    Called =>
        /\ \A k \in 1..Len(evals) :
              (evals[k].tag \in FormatRules
                  /\ FieldAt(rec.sub, evals[k].path).kind = "string"
                  /\ FieldAt(rec.sub, evals[k].path).str = "")
              => evals[k].ok
        /\ (rec \in FormatRecords /\ rec.sub[1].str = "") =>
              FieldAndTag(result.errs) = <<<<"X", "required">>>>

C13_Witness ==
    /\ Called
    /\ rec \in FormatRecords
    /\ rec.sub[1].validate = "email,required"
    /\ rec.sub[1].str = ""
    /\ Len(evals) = 2
    /\ FieldAndTag(result.errs) = <<<<"X", "required">>>>

\* the decimal rendering of the integers fields hold
Decimal ==
    (0 - 5 :> "-5") @@ (0 - 4 :> "-4") @@ (0 - 3 :> "-3") @@ (0 - 2 :> "-2")
    @@ (0 - 1 :> "-1") @@ (0 :> "0") @@ (1 :> "1") @@ (2 :> "2") @@ (3 :> "3")
    @@ (4 :> "4") @@ (5 :> "5")

\* C14: oneof passes on a string exactly when it is empty or is one of the
\* listed tokens, and on an integer exactly when its decimal rendering is one.
C14_OneOfMembership ==
    (Called /\ rec \in OneOfRecords) =>
        \A l \in OneOfLists :
            rec.sub[1].validate = "oneof=" \o l.param =>
                LET f == rec.sub[1] IN
                /\ f.kind = "string" =>
                      (evals[1].ok <=> (f.str = "" \/ f.str \in l.allowed))
                /\ f.kind \in {"int", "uint"} =>
                      (evals[1].ok <=> Decimal[f.num] \in l.allowed)

\* "" passes oneof=male female and "other" does not
C14_Witness ==
    /\ Called
    /\ rec \in OneOfRecords
    /\ rec.sub[1].validate = "oneof=male female"
    /\ \/ rec.sub[1].str = "" /\ rec.sub[1].kind = "string" /\ result.kind = "nil"
       \/ rec.sub[1].str = "other" /\ result.kind = "errors"

\* the comparison a rule name stands for, on numbers a and b
Compares(tag, a, b) ==
    CASE tag = "eq" -> a = b
      [] tag = "ne" -> a # b
      [] tag = "gt" -> a > b
      [] tag = "gte" -> a >= b
      [] tag = "lt" -> a < b
      [] tag = "lte" -> a <= b

ComparisonRules == {"eq", "ne", "gt", "gte", "lt", "lte"}

\* C15: eq, ne, gt, gte, lt and lte compare a numeric field with the
\* parameter as numbers, alike for int, uint and float fields; on a string eq
\* and ne are string equality and inequality and the other four fail; ne
\* passes exactly when eq fails.
C15_ComparisonsKindGeneric ==
    Called =>
        /\ \A k \in 1..Len(evals) :
              LET e == evals[k]
                  f == FieldAt(rec.sub, e.path)
                  n == Atoi(e.param)
                  twice == IF f.kind = "float" THEN f.num ELSE 2 * f.num
              IN  e.tag \in ComparisonRules =>
                      /\ (f.kind \in NumericKinds /\ n.ok) =>
                            (e.ok <=> Compares(e.tag, twice, 2 * n.val))
                      /\ f.kind = "string" =>
                            (e.ok <=> /\ e.tag \in {"eq", "ne"}
                                      /\ Compares(e.tag, f.str, e.param))
        /\ rec \in EqNeRecords =>
              (Len(evals) = 2 => evals[1].ok # evals[2].ok)

\* two goroutines are inside accesses to one registry, one of them a write
Overlap(ths) ==
    \E t \in Threads, u \in Threads :
        /\ t # u
        /\ \/ ths[t].pc = "store" /\ ths[u].pc \in {"lookup", "store"}
           \/ ths[t].pc = "setmsg" /\ ths[u].pc \in {"format", "setmsg"}

\* C19: a Validate call that no registration overlapped returns what the call
\* returns when run alone, and while no registration is under way no step
\* writes a registry; two accesses to a registry conflict exactly when a
\* RegisterValidator or SetMessage write overlaps a read of that registry by
\* a Validate call or another write of it, which nothing prevents.
C19_ConcurrentValidateSafe ==
    [][/\ \A t \in Threads :
             (threads[t].pc # "done" /\ threads'[t].pc = "done"
                 /\ ~threads'[t].overlapped)
             => threads'[t].ret = Validate(defaultValidator, threads'[t].rec).ret
       /\ (\A t \in Threads : threads[t].pc \notin WritePcs)
             => (validators' = validators /\ messages' = messages)
       /\ (\A t \in Threads : threads'[t].pc \notin WritePcs) => race' = race
       /\ Overlap(threads') => race'
       /\ (race' /\ ~race) => Overlap(threads')]_vars

\* RegisterValidator writing the table while a Validate call reads it
C19_Witness ==
    /\ race
    /\ threads["g1"].pc = "lookup" /\ threads["g1"].torn
    /\ threads["g2"].pc = "store"

\* the positions a walk of fields visits: every field, and the fields of
\* every exported embedded struct
RECURSIVE AllFields(_, _)
AllFields(fields, prefix) ==
    UNION { {Append(prefix, i)}
            \cup (IF fields[i].exported /\ fields[i].kind = "struct"
                         /\ fields[i].anonymous
                  THEN AllFields(fields[i].sub, Append(prefix, i))
                  ELSE {}) : i \in 1..Len(fields) }

NoRepeat(sq) == \A i \in 1..Len(sq), j \in 1..Len(sq) : sq[i] = sq[j] => i = j

\* the walk of a call so far: no field visited twice, no rule evaluated twice,
\* only rules the field's annotation lists; on return every field visited
WalkBounded(th) ==
    /\ NoRepeat(th.visited)
    /\ NoRepeat(th.evaluated)
    /\ \A k \in 1..Len(th.evaluated) :
          th.evaluated[k][2] \in
              1..Len(Split(FieldAt(th.rec.sub, th.evaluated[k][1]).validate, ","))
    /\ (th.pc = "done" /\ th.ret.kind # "expected struct") =>
          {th.visited[k] : k \in 1..Len(th.visited)} = AllFields(th.rec.sub, <<>>)

\* C20: every Validate call returns, having visited each field of the record
\* and of its embedded records once and evaluated no rule but those listed.
C20_ValidateTerminates ==
    /\ [](\A t \in Threads : WalkBounded(threads[t]))
    /\ \A t \in Threads :
          (threads[t].pc \in CallPcs) ~> (threads[t].pc = "done")

\* a call returned errors from inside and around two levels of embedding
C20_Witness ==
    /\ threads["g1"].pc = "done"
    /\ Len(threads["g1"].visited) = 8
    /\ Len(threads["g1"].evaluated) = 6
    /\ Len(threads["g1"].ret.errs) = 4

\* the request helpers
HelperOps == {"BindAndValidate", "BindQueryAndValidate", "MustValidate"}

\* C21: a request helper returns nil exactly when the request decoded and
\* Validate returned nil, so the handler processes no request whose binding or
\* validation failed.
C21_HelpersReturnErrorWhenInvalid ==
    reply.op \in HelperOps =>
        /\ reply.err = "nil" <=> (reply.bound /\ reply.ret.kind = "nil")
        /\ reply.processed => (reply.bound /\ reply.ret.kind = "nil")

Pairs(es) == [k \in 1..Len(es) |-> [tag |-> es[k].tag, param |-> es[k].param]]

\* C23: the rules evaluated for an annotation are its comma-separated tokens,
\* trimmed, the empty ones left out, each cut at its first "=" into name and
\* parameter; the annotations "" and "-" give no rule and no error.
C23_RuleGrammar ==
    (Called /\ rec \in GrammarRecords) =>
        \A c \in GrammarCases :
            c.annotation = rec.sub[1].validate =>
                /\ Pairs(evals) = c.rules
                /\ result.kind = "nil"
                /\ c.annotation \in {"", "-"} => evals = <<>>

\* two rules evaluated, each parameter keeping what follows the first "="
C23_Witness ==
    /\ Called
    /\ rec.sub[1].validate = "contains=a=b,zzz=="
    /\ Len(evals) = 2
    /\ evals[1].param = "a=b" /\ evals[2].param = "="

\* the proper prefixes of a position
Above(p) == {SubSeq(p, 1, n) : n \in 1..(Len(p) - 1)}

IsEmbedded(f) == f.exported /\ f.kind = "struct" /\ f.anonymous

\* the names of the fields of a struct field, at any depth
RECURSIVE NamesIn(_)
NamesIn(fields) ==
    UNION {{fields[i].name} \cup NamesIn(fields[i].sub) : i \in 1..Len(fields)}

ErrorFields == {result.errs[k].Field : k \in 1..Len(result.errs)}

\* C24: the annotated fields of an embedded struct are evaluated and a failing
\* one is reported under its own name among the errors of the record; the
\* fields of a named struct field are neither evaluated nor reported.
C24_EmbeddedWalkedNestedOpaque ==
    (Called /\ rec \in EmbeddingRecords) =>
        /\ \A k \in 1..Len(evals) :
               \A q \in Above(evals[k].path) : IsEmbedded(FieldAt(rec.sub, q))
        /\ \A i \in 1..Len(rec.sub) :
               IsEmbedded(rec.sub[i]) =>
                   \A j \in 1..Len(rec.sub[i].sub) :
                       LET f  == rec.sub[i].sub[j]
                           es == EvalsAt(<<i, j>>)
                       IN  (~IsEmbedded(f) /\ f.validate \notin {"", "-"}) =>
                               /\ es # <<>>
                               /\ ~es[Len(es)].ok <=> f.name \in ErrorFields
        /\ \A i \in 1..Len(rec.sub) :
               (rec.sub[i].kind = "struct" /\ ~rec.sub[i].anonymous) =>
                   ErrorFields \cap NamesIn(rec.sub[i].sub) = {}

\* errors from both levels of embedding next to the error of the named struct
\* field, whose own field fails its annotation too
C24_Witness ==
    /\ Called
    /\ rec \in EmbeddingRecords
    /\ ErrorFields = {"A", "B", "By", "Meta"}
    /\ rec.sub[2].sub[1].str = ""

\* C30: the annotation of an exported embedded struct is never evaluated and
\* no error carries the embedded field's name.
C30_EmbeddedAnnotationIgnored ==
    Called =>
        /\ \A k \in 1..Len(evals) : ~IsEmbedded(FieldAt(rec.sub, evals[k].path))
        /\ rec \in EmbeddingRecords => ErrorFields \cap {"Base", "Audit"} = {}

\* an embedded struct walked whose annotation, a rule that fails on a struct,
\* gave no error
C30_Witness ==
    /\ Called
    /\ rec \in EmbeddingRecords
    /\ rec.sub[1].validate = "email"
    /\ ~validateField(defaultValidator, rec.sub[1], "email", "")
    /\ "A" \in ErrorFields /\ "Base" \notin ErrorFields

\* C25: the label in a field's message is its label tag when that is not
\* empty, else its json tag up to the first ",", else (no json tag, or "-")
\* the field's name, whichever rule of the field failed.
C25_LabelResolution ==
    (Called /\ rec \in LabelRecords) =>
        \A c \in LabelCases :
            (c.label = rec.sub[1].label /\ c.json = rec.sub[1].json) =>
                CASE rec.sub[1].str = "" ->
                         /\ Len(result.errs) = 1
                         /\ result.errs[1].Message
                                = c.expect \o " must not be empty"
                  [] rec.sub[1].str = "ab" ->
                         /\ Len(result.errs) = 1
                         /\ result.errs[1].Message
                                = c.expect \o " must not be shorter than 3"
                  [] OTHER -> result.kind = "nil"

\* a field without label tag reported under its json name, options cut off
C25_Witness ==
    /\ Called
    /\ rec \in LabelRecords
    /\ rec.sub[1].label = "" /\ rec.sub[1].json = "username,omitempty"
    /\ result.kind = "errors"
    /\ result.errs[1].Message = "username must not be shorter than 3"

\* the templates of the catalog in use, filled in by hand
Rendered(template, label, param, lo, hi) ==
    CASE template = "{field} must not be empty" -> label \o " must not be empty"
      [] template = "{field} is missing" -> label \o " is missing"
      [] template = "{field} must be even ({param})" ->
             label \o " must be even (" \o param \o ")"
      [] template = "{field} must be a valid email address" ->
             label \o " must be a valid email address"
      [] template = "{field} must have length {min}-{max}" ->
             label \o " must have length " \o lo \o "-" \o hi
      [] template = "validation failed" -> "validation failed"

\* label and parameter of the fields of LoginRequest, by field name
LoginLabels ==
    [Username |-> "user name", Password |-> "password", Email |-> "Email",
     Age |-> "Age", Number |-> "number"]
LoginParams == [required |-> "", email |-> "", range |-> "1-3", even |-> "x"]

\* C26: the message of an error is the template the catalog now holds for the
\* rule (the one last set, else the built-in one, else "validation failed")
\* with {field} replaced by the label and {param} by the parameter, and for
\* range=a-b with {min} replaced by a and {max} by b.
C26_MessageFromCatalog ==
    (returned # <<>> /\ result.kind = "errors") =>
        \A k \in 1..Len(result.errs) :
            LET e == result.errs[k] IN
            e.Message = Rendered(IF e.Tag \in DOMAIN messages
                                 THEN messages[e.Tag]
                                 ELSE "validation failed",
                                 LoginLabels[e.Field], LoginParams[e.Tag],
                                 "1", "3")

\* one call reporting under a template that was set, under built-in ones (the
\* one of range among them) and, for a rule without entry, the generic one
C26_Witness ==
    /\ returned # <<>>
    /\ result.kind = "errors"
    /\ {result.errs[k].Message : k \in 1..Len(result.errs)}
           = {"user name is missing", "Email must be a valid email address",
              "Age must have length 1-3", "validation failed"}
    /\ "even" \notin DOMAIN messages

\* C27: password passes on the empty string, and on another string exactly
\* when it is at least minLen characters long (6 without parameter) and holds
\* a letter and a digit.
C27_PasswordStrength ==
    (Called /\ rec \in PasswordRecords) =>
        \A c \in PasswordCases :
            c.rule = rec.sub[1].validate =>
                LET str == rec.sub[1].str IN
                result.kind = "nil" <=>
                    \/ str = ""
                    \/ /\ Len(str) >= c.minLen
                       /\ \E i \in 1..Len(str) : Char(str, i) \in Letters
                       /\ \E i \in 1..Len(str) : Char(str, i) \in Digits

\* C28: no evaluated rule has a comma in its name or parameter; the
\* annotation regex=^a{1,3}$ is evaluated as regex with the parameter ^a{1,
\* then as the unknown rule 3}$, which passes.
C28_NoCommaInParameter ==
    Called =>
        /\ \A k \in 1..Len(evals) :
               ~Contains(evals[k].tag, ",") /\ ~Contains(evals[k].param, ",")
        /\ (rec \in CommaRecords /\ rec.sub[1].name = "Code") =>
               /\ evals # <<>>
               /\ evals[1].tag = "regex" /\ evals[1].param = "^a{1"
               /\ evals[1].ok <=> rec.sub[1].str \in {"", "a{1", "a{1,3}"}
               /\ evals[1].ok =>
                      /\ Len(evals) = 2
                      /\ evals[2].tag = "3}$" /\ evals[2].param = ""
                      /\ evals[2].ok
               /\ ~evals[1].ok =>
                      /\ Len(evals) = 1
                      /\ result.errs[1].Tag = "regex"

\* "aa", one to three letters a, reported under regex, the rest of the
\* pattern never evaluated
C28_Witness ==
    /\ Called
    /\ rec \in CommaRecords
    /\ rec.sub[1].validate = "regex=^a{1,3}$" /\ rec.sub[1].str = "aa"
    /\ result.kind = "errors"
    /\ Len(evals) = 1 /\ evals[1].param = "^a{1"

\* a record that fails required, and "even" under a predicate that rejects
Probe ==
    Struct(<<String("Name", "required", ""), Number("Number", "int", "even", 3)>>)

\* what Validate on validator i returns for the probe
Sees(i) == Validate(View(i), Probe).ret

\* C29: a step changes the custom rules and messages of at most one
\* validator, the default one or one made by New; a validator just made by
\* New has no custom rule and the built-in catalog.
C29_InstancesIndependent ==
    [][/\ \A i \in DOMAIN instances :
             View(i)' # View(i) =>
                 /\ defaultValidator' = defaultValidator
                 /\ \A j \in DOMAIN instances \ {i} : View(j)' = View(j)
       /\ defaultValidator' # defaultValidator =>
             \A j \in DOMAIN instances : View(j)' = View(j)
       /\ \A i \in DOMAIN instances' \ DOMAIN instances :
             View(i)' = [validators |-> <<>>, messages |-> defaultMessages]]_vars

\* two validators and the default one, each with a message for required of
\* its own, one of them with a custom rule the others lack, so that Validate
\* returns different errors on them
C29_Witness ==
    /\ DOMAIN instances = InstanceNames
    /\ View("a").messages["required"] = "{field} is missing"
    /\ View("b").messages["required"] = defaultMessages["required"]
    /\ messages["required"] = "{field} must be even ({param})"
    /\ "even" \in DOMAIN View("a").validators
    /\ "even" \notin DOMAIN View("b").validators
    /\ validators = <<>>
    /\ Sees("a") # Sees("b")

====
